---- MODULE Spec2Model ----
(***************************************************************************)
(* Model of the 3D renderer's camera (src/src/camera.rs), application     *)
(* loop (src/src/app.rs), GPU resources (src/src/skybox.rs, model.rs,     *)
(* shader.rs) and renderer (src/src/renderer.rs).                         *)
(*                                                                         *)
(* Numbers.  The program computes in f32; the model computes in exact      *)
(* fixed-point integers:                                                   *)
(*   - angles are counted in units of 1/DegreeScale degree, so that one    *)
(*     pixel of mouse motion times LOOK_SENSITIVITY (0.1 degree) is one    *)
(*     unit;                                                               *)
(*   - sines, cosines and the components of unit vectors are counted in    *)
(*     units of 1/TrigScale;                                               *)
(*   - time is counted in ticks, TicksPerStep ticks to one fixed logic     *)
(*     update step (1/60 s);                                               *)
(*   - positions are counted in units of 1/PosDen, chosen so that          *)
(*     MOVEMENT_SPEED * direction * delta_time is an integer.              *)
(* Rounding of f32 additions is not modelled.                              *)
(***************************************************************************)
EXTENDS Integers, Sequences, FiniteSets, TLC

\* ------------------------------------------------------------- bounds

\* Fixed-point denominator of sines, cosines and unit-vector components.
TrigScale == 1000
\* Ticks of model time in one fixed logic update step.
TicksPerStep == 2
\* Number of Camera method calls in a behaviour of SpecCamera.
MaxCalls == 3
\* Largest delta_time, in ticks, passed to a movement method in SpecCamera.
MaxDt == 2
\* Number of logic update steps in a behaviour of the application.
MaxUpdates == 2
\* Number of Camera::look calls the application makes in a behaviour.
MaxLooks == 2
\* Number of edits the user makes in the control panel in a behaviour.
MaxEdits == 2

\* ------------------------------------------------- program constants

\* Angle units per degree: LOOK_SENSITIVITY is 0.1 = 1/DegreeScale degree.
DegreeScale == 10
\* camera.rs:5, in angle units per pixel of mouse offset.
LOOK_SENSITIVITY == 1
\* camera.rs:4, MOVEMENT_SPEED = 2.5 = MOVEMENT_SPEED_NUM / MOVEMENT_SPEED_DEN.
MOVEMENT_SPEED_NUM == 5
MOVEMENT_SPEED_DEN == 2
\* app.rs:61
MAX_LOGIC_UPDATE_PER_SECOND == 60
\* app.rs:62, FIXED_UPDATE_TIMESTEP = 1 / MAX_LOGIC_UPDATE_PER_SECOND, in ticks.
FIXED_UPDATE_TIMESTEP == TicksPerStep
\* Position units per world unit.
PosDen == MOVEMENT_SPEED_DEN * TrigScale * MAX_LOGIC_UPDATE_PER_SECOND * TicksPerStep

\* ------------------------------------------------------------ vectors

\* A 3-vector of f32.  nan is set when the components are NaN (the result
\* of normalizing a zero-length vector); NaN absorbs every later operation.
Vec3(x, y, z) == [x |-> x, y |-> y, z |-> z, nan |-> FALSE]
NaNVec == [x |-> 0, y |-> 0, z |-> 0, nan |-> TRUE]

VAdd(a, b) ==
    IF a.nan \/ b.nan THEN NaNVec ELSE Vec3(a.x + b.x, a.y + b.y, a.z + b.z)

VSub(a, b) ==
    IF a.nan \/ b.nan THEN NaNVec ELSE Vec3(a.x - b.x, a.y - b.y, a.z - b.z)

\* v * k for a scalar k.
VScale(v, k) ==
    IF v.nan THEN NaNVec ELSE Vec3(v.x * k, v.y * k, v.z * k)

\* a / b rounded to the nearest integer, for b > 0.
RDiv(a, b) == (2 * a + b) \div (2 * b)

RECURSIVE isqrt_search(_, _, _)
isqrt_search(n, lo, hi) ==
    IF lo >= hi THEN lo
    ELSE LET mid == (lo + hi + 1) \div 2
         IN  IF mid * mid <= n THEN isqrt_search(n, mid, hi)
             ELSE isqrt_search(n, lo, mid - 1)

\* Floor of the square root of n >= 0.
isqrt(n) == isqrt_search(n, 0, 2 * (TrigScale + 1))

\* UP_VECTOR, camera.rs:11-15: (0, 1, 0).
UP_VECTOR == Vec3(0, TrigScale, 0)

\* cgmath cross product of two vectors in units of 1/TrigScale.
cross(a, b) ==
    IF a.nan \/ b.nan THEN NaNVec
    ELSE Vec3(RDiv(a.y * b.z - a.z * b.y, TrigScale),
              RDiv(a.z * b.x - a.x * b.z, TrigScale),
              RDiv(a.x * b.y - a.y * b.x, TrigScale))

\* cgmath normalize: v / |v|; a zero-length vector gives NaN components.
normalize(v) ==
    IF v.nan THEN NaNVec
    ELSE LET len == isqrt(v.x * v.x + v.y * v.y + v.z * v.z)
         IN  IF len = 0 THEN NaNVec
             ELSE Vec3(RDiv(v.x * TrigScale, len),
                       RDiv(v.y * TrigScale, len),
                       RDiv(v.z * TrigScale, len))

\* --------------------------------------------------------------- trig

\* Angle a (any integer number of angle units) reduced to [0, 360 degrees).
Reduce(a) == a % (360 * DegreeScale)

\* sin of an angle in [0, 180] degrees, by Bhaskara's rational approximation
\* 4p / (40500 - p) with p = x (180 - x), x in degrees.
sin_half(a) ==
    LET half == 180 * DegreeScale
        p == (a * (half - a)) \div 4
        q == (5 * half * half) \div 16
    IN  RDiv(TrigScale * 4 * p, q - p)

\* f32::sin of an angle given in angle units, in units of 1/TrigScale.
sin(a) ==
    LET r == Reduce(a)
        half == 180 * DegreeScale
    IN  IF r <= half THEN sin_half(r) ELSE 0 - sin_half(r - half)

\* f32::cos of an angle given in angle units, in units of 1/TrigScale.
cos(a) == sin(a + 90 * DegreeScale)

\* ------------------------------------------------------------- camera

\* wrap_yaw without its "yaw < min" branch.
wrap_yaw_no_lower_branch(yaw) ==
    LET max == 359 * DegreeScale
        min == 0
    IN  IF max < yaw THEN min ELSE yaw

\* wrap_yaw with max = 360.0.
wrap_yaw_max_360(yaw) ==
    LET max == 360 * DegreeScale
        min == 0
    IN  IF max < yaw THEN min
        ELSE IF yaw < min THEN max
        ELSE yaw

\* wrap_yaw, camera.rs:113-123
wrap_yaw(yaw) ==
    LET max == 359 * DegreeScale
        min == 0
    IN  IF max < yaw THEN min
        ELSE IF yaw < min THEN max
        ELSE yaw

\* A clamp that forgets the upper bound.
clamp_no_upper(v, min, max) == IF v < min THEN min ELSE v

\* f32::clamp(min, max), camera.rs:84
clamp(v, min, max) == IF v < min THEN min ELSE IF v > max THEN max ELSE v

\* Camera::update_direction, camera.rs:103-110
update_direction(cam) ==
    LET rotation_x == cam.rotation.x
        rotation_y == cam.rotation.y
        d == Vec3(RDiv(cos(rotation_x) * cos(rotation_y), TrigScale),
                  sin(rotation_y),
                  RDiv(sin(rotation_x) * cos(rotation_y), TrigScale))
    IN  [cam EXCEPT !.direction = normalize(d)]

\* Camera::new, camera.rs:38-47
Camera_new(position, rotation) ==
    update_direction([position |-> position,
                      rotation |-> rotation,
                      direction |-> Vec3(0, 0, 0)])

\* MOVEMENT_SPEED * v * delta_time in position units, v in units of
\* 1/TrigScale and delta_time in ticks.
Displacement(v, delta_time) ==
    VScale(v, MOVEMENT_SPEED_NUM * delta_time)

\* Camera::move_forward, camera.rs:49-51
move_forward(cam, delta_time) ==
    [cam EXCEPT !.position = VAdd(@, Displacement(cam.direction, delta_time))]

\* Camera::move_backward, camera.rs:53-55
move_backward(cam, delta_time) ==
    [cam EXCEPT !.position = VSub(@, Displacement(cam.direction, delta_time))]

\* Camera::strafe_left, camera.rs:57-61
strafe_left(cam, delta_time) ==
    [cam EXCEPT !.position =
        VSub(@, Displacement(normalize(cross(cam.direction, UP_VECTOR)), delta_time))]

\* strafe_right without the normalize() of camera.rs:64.
strafe_right_not_normalized(cam, delta_time) ==
    [cam EXCEPT !.position =
        VAdd(@, Displacement(cross(cam.direction, UP_VECTOR), delta_time))]

\* Camera::strafe_right, camera.rs:63-65
strafe_right(cam, delta_time) ==
    [cam EXCEPT !.position =
        VAdd(@, Displacement(normalize(cross(cam.direction, UP_VECTOR)), delta_time))]

\* Camera::ascend, camera.rs:67-69
ascend(cam, delta_time) ==
    [cam EXCEPT !.position = VAdd(@, Displacement(UP_VECTOR, delta_time))]

\* Camera::descend, camera.rs:71-73
descend(cam, delta_time) ==
    [cam EXCEPT !.position = VSub(@, Displacement(UP_VECTOR, delta_time))]

\* look without the update_direction() of camera.rs:85.
look_stale_direction(cam, x_offset, y_offset) ==
    LET yaw == wrap_yaw(cam.rotation.x + x_offset * LOOK_SENSITIVITY)
        pitch == clamp(cam.rotation.y + y_offset * LOOK_SENSITIVITY,
                       0 - 89 * DegreeScale, 89 * DegreeScale)
    IN  [cam EXCEPT !.rotation = [x |-> yaw, y |-> pitch]]

\* Camera::look, camera.rs:77-86
look(cam, x_offset, y_offset) ==
    LET yaw == wrap_yaw(cam.rotation.x + x_offset * LOOK_SENSITIVITY)
        pitch == clamp(cam.rotation.y + y_offset * LOOK_SENSITIVITY,
                       0 - 89 * DegreeScale, 89 * DegreeScale)
    IN  update_direction([cam EXCEPT !.rotation = [x |-> yaw, y |-> pitch]])

\* App::new, app.rs:431: Camera::new((1.7, 1.3, 4.0), (240.0, -15.0))
InitialPosition ==
    Vec3((17 * PosDen) \div 10, (13 * PosDen) \div 10, (40 * PosDen) \div 10)

InitialRotation == [x |-> 240 * DegreeScale, y |-> 0 - 15 * DegreeScale]

InitialCamera == Camera_new(InitialPosition, InitialRotation)

\* ----------------------------------------------------- Option, Result

\* Option<T>: None, or Some(x) holding x.
None == <<>>
Some(x) == <<x>>
unwrap(o) == o[1]

\* ------------------------------------------------- the OpenGL context

\* The state of a GL context the program reads or writes, as the context is
\* created: every capability disabled, depth function LESS, polygon mode
\* FILL, nothing bound.  objects is the set of the handles created and not
\* deleted, deleted the set of the handles deleted, deleted_twice the set of
\* the handles deleted again after that.  context is whether the context and
\* the surface of the window exist, released_late the set of the handles a
\* delete call named after they were destroyed.
NewGlContext ==
    [BLEND |-> FALSE, CULL_FACE |-> FALSE, DEPTH_TEST |-> FALSE,
     depth_func |-> "LESS", polygon_mode |-> "FILL",
     vertex_array |-> None, texture_cube_map |-> None, program |-> None,
     viewport |-> None, clear_color |-> None,
     tex_images |-> <<>>,
     objects |-> {}, deleted |-> {}, deleted_twice |-> {},
     context |-> TRUE, released_late |-> {}]

\* gl.create_texture(), gl.create_vertex_array(), gl.create_buffer(),
\* gl::CreateShader, gl::CreateProgram: the new object, named h.
gl_create(gl, h) == [gl EXCEPT !.objects = @ \cup {h}]

\* gl.delete_buffer, gl.delete_vertex_array, gl.delete_texture,
\* gl::DeleteShader, gl::DeleteProgram
gl_delete(gl, h) ==
    LET called == IF gl.context THEN gl
                  ELSE [gl EXCEPT !.released_late = @ \cup {h}]
    IN  IF h \in gl.objects
        THEN [called EXCEPT !.objects = @ \ {h}, !.deleted = @ \cup {h}]
        ELSE [called EXCEPT !.deleted_twice = @ \cup {h}]

\* The drop of GlutinWindowContext, app.rs:539-542: the GL context and the
\* surface of the window are destroyed.
GlutinWindowContext_drop(gl) == [gl EXCEPT !.context = FALSE]

\* The handles of hs deleted in the order of the sequence hs.
RECURSIVE gl_delete_all(_, _)
gl_delete_all(gl, hs) ==
    IF hs = <<>> THEN gl ELSE gl_delete_all(gl_delete(gl, Head(hs)), Tail(hs))
\* Result<T, String>: Ok(value) or Err(message).  Every function that
\* returns one here also returns the GL context as it leaves it.
Ok(gl, v) == [ok |-> TRUE, gl |-> gl, value |-> v, err |-> <<>>]
Err(gl, e) == [ok |-> FALSE, gl |-> gl, value |-> None, err |-> e]

\* ------------------------------------------------------------- skybox

\* glow::TEXTURE_CUBE_MAP_POSITIVE_X, skybox.rs:197
TEXTURE_CUBE_MAP_POSITIVE_X == 34069

\* SkyboxFileBuilder with its six with_* calls made, app.rs:152-158: the
\* array texture_face_paths of skybox.rs:95-102.
texture_face_paths == <<"right", "left", "top", "bottom", "front", "back">>

\* create_texture, skybox.rs:194-208: the image img of the file face_path
\* goes to the cube-map target POSITIVE_X + i.
create_texture(gl, i, face_path, img) ==
    [gl EXCEPT !.tex_images =
        Append(@, [target |-> TEXTURE_CUBE_MAP_POSITIVE_X + i,
                   width |-> img.width, height |-> img.height,
                   face |-> face_path])]

\* read_images_from_files, skybox.rs:94-111, from the face with the
\* 0-based index i on; files maps a path to its image.
RECURSIVE read_images_from_files(_, _, _)
read_images_from_files(gl, files, i) ==
    IF i = Len(texture_face_paths) THEN Ok(gl, <<>>)
    ELSE LET face_path == texture_face_paths[i + 1]
             img == files[face_path]
         IN  IF ~img.decodes
             THEN Err(gl, <<"unable to load skybox texture from", face_path>>)
             ELSE read_images_from_files(create_texture(gl, i, face_path, img),
                                         files, i + 1)

\* setup_shader_plumbing, skybox.rs:210-302: the vertex array stays bound.
Skybox_setup_shader_plumbing(gl, texture) ==
    LET g1 == gl_create(gl, "skybox.vertex_array")
        g2 == [g1 EXCEPT !.vertex_array = Some("skybox.vertex_array")]
        g3 == gl_create(g2, "skybox.vertex_buffer")
        g4 == gl_create(g3, "skybox.index_buffer")
    IN  Ok(g4, [texture |-> texture,
                vertex_array |-> "skybox.vertex_array",
                vertex_buffer |-> "skybox.vertex_buffer",
                index_buffer |-> "skybox.index_buffer"])

\* SkyboxFileBuilder::build, skybox.rs:83-92 (and SkyboxBufferBuilder::build,
\* skybox.rs:159-168, which differs in where the images come from).
SkyboxFileBuilder_build(gl, files) ==
    LET g1 == gl_create(gl, "skybox.texture")
        g2 == [g1 EXCEPT !.texture_cube_map = Some("skybox.texture")]
        read == read_images_from_files(g2, files, 0)
    IN  IF ~read.ok
        THEN Err(read.gl, <<"unable to create skybox texture">> \o read.err)
        ELSE Skybox_setup_shader_plumbing(read.gl, "skybox.texture")

\* Drop for Skybox, skybox.rs:26-35
Skybox_drop(gl, skybox) ==
    gl_delete_all(gl, <<skybox.index_buffer, skybox.vertex_buffer,
                        skybox.vertex_array, skybox.texture>>)

\* -------------------------------------------------------------- model

\* The paths of app.rs:167-171, in the order of the array.
model_paths == <<"cube", "teapot", "bunny">>

\* setup_shader_plumbing, model.rs:122-165: no vertex array is bound at the
\* end.
Model_setup_shader_plumbing(gl, path) ==
    LET g1 == gl_create(gl, path \o ".vertex_array")
        g2 == gl_create(g1, path \o ".vertex_buffer")
        g3 == gl_create(g2, path \o ".index_buffer")
    IN  [g3 EXCEPT !.vertex_array = None]

\* Model::create_from_file, model.rs:30-42 (create_from_buffer, model.rs:45-61,
\* in the browser); files maps a path to its mesh.
Model_create_from_file(gl, files, path) ==
    IF ~files[path].loads
    THEN Err(gl, <<"failed to load model from", path>>)
    ELSE Ok(Model_setup_shader_plumbing(gl, path),
            [vertex_array |-> path \o ".vertex_array",
             indices |-> files[path].indices,
             vertex_buffer |-> path \o ".vertex_buffer",
             index_buffer |-> path \o ".index_buffer"])

\* Drop for Model, model.rs:64-72
Model_drop(gl, model) ==
    gl_delete_all(gl, <<model.index_buffer, model.vertex_buffer, model.vertex_array>>)

\* Drop for Vec<Model>: the elements are dropped in order.
RECURSIVE Models_drop(_, _)
Models_drop(gl, ms) ==
    IF ms = <<>> THEN gl ELSE Models_drop(Model_drop(gl, Head(ms)), Tail(ms))
\* ------------------------------------------------------------- shader

\* glGetShaderInfoLog, glGetProgramInfoLog: what the driver has to say about
\* a shader that does not compile or a program that does not link.
InfoLogOf(object) == <<"ERROR: 0:1: '", object, "' : syntax error">>

\* Vec::with_capacity(message_length), shader.rs:128: a vector of no element
\* with room for message_length of them.
Vec_with_capacity(capacity) == [len |-> 0, capacity |-> capacity, storage |-> <<>>]

\* gl::GetShaderInfoLog(id, message_length, null, message_buffer.as_mut_ptr()),
\* shader.rs:129-134: the driver writes the log through the pointer into the
\* storage of the vector; the length of the vector is not its to set.
GetInfoLog_into(message_buffer, message_length, log) ==
    [message_buffer EXCEPT
        !.storage = SubSeq(log, 1, IF message_length < Len(log)
                                   THEN message_length ELSE Len(log))]

\* std::str::from_utf8(&message_buffer), shader.rs:140: the elements of the
\* vector, which are the first len of its storage.
message_of(message_buffer) == SubSeq(message_buffer.storage, 1, message_buffer.len)

\* The message check_compile_errors and check_linker_errors print for the
\* object, shader.rs:125-141 and 152-163.
info_log_message(object) ==
    LET message_length == Len(InfoLogOf(object))
    IN  message_of(GetInfoLog_into(Vec_with_capacity(message_length),
                                   message_length, InfoLogOf(object)))

\* compile, shader.rs:104-118; files maps a path to its GLSL file.  printed
\* is what check_compile_errors, shader.rs:120-145, writes to stderr.
compile(gl, files, shader_path, shader_type) ==
    IF ~files[shader_path].readable
    THEN [ok |-> FALSE, gl |-> gl, value |-> None, printed |-> <<>>,
          err |-> <<"unable to read GLSL file">>]
    ELSE LET shader == shader_path \o ".shader"
             g1 == gl_create(gl, shader)
         IN  IF files[shader_path].compiles
             THEN [ok |-> TRUE, gl |-> g1, value |-> shader, printed |-> <<>>,
                   err |-> <<>>]
             ELSE [ok |-> FALSE, gl |-> g1, value |-> None,
                   printed |-> <<<<shader_type, " shader compile error: ">>
                                 \o info_log_message(shader)>>,
                   err |-> <<"failed to compile GLSL code">>]

\* Shader::new, shader.rs:15-46; name names the program object, links is
\* whether the two compiled shaders link.
Shader_new(gl, files, links, name, vertex_shader_path, fragment_shader_path) ==
    LET v == compile(gl, files, vertex_shader_path, "vertex")
        f == compile(v.gl, files, fragment_shader_path, "fragment")
        shader_program == name \o ".program"
        g1 == gl_create(f.gl, shader_program)
        g2 == gl_delete(gl_delete(g1, v.value), f.value)
    IN  IF ~v.ok
        THEN [ok |-> FALSE, gl |-> v.gl, value |-> None, printed |-> v.printed,
              err |-> <<"failed to compile vertex shader", vertex_shader_path>> \o v.err]
        ELSE IF ~f.ok
        THEN [ok |-> FALSE, gl |-> f.gl, value |-> None,
              printed |-> v.printed \o f.printed,
              err |-> <<"failed to compile fragment shader", fragment_shader_path>>
                      \o f.err]
        ELSE IF links
        THEN [ok |-> TRUE, gl |-> g2, printed |-> <<>>, err |-> <<>>,
              value |-> [shader_program |-> shader_program,
                         subroutine_indices |-> <<>>]]
        ELSE [ok |-> FALSE, gl |-> g2, value |-> None,
              printed |-> <<<<"shader link error: ">>
                            \o info_log_message(shader_program)>>,
              err |-> <<"failed to link shader program">>]

\* Drop for Shader, shader.rs:93-102
Shader_drop(gl, shader) == gl_delete(gl, shader.shader_program)

\* ----------------------------------------------------------- renderer

\* renderer.rs:111-112: the near and far planes 0.1 and 100.0, in tenths.
NEAR_TENTHS == 1
FAR_TENTHS == 1000

\* Matrix4::zero(): of a projection matrix the model keeps the entries
\* c0r0, c1r1, c2r2 and c3r2, in units of 1/TrigScale.
Matrix4_zero == [c0r0 |-> 0, c1r1 |-> 0, c2r2 |-> 0, c3r2 |-> 0]

\* An f32 that is not a number.
NaN == "NaN"

\* cgmath::perspective(Deg(fovy), width / height, 0.1, 100.0) as called at
\* renderer.rs:108-113, fovy in angle units:
\* f = cot(fovy / 2), c0r0 = f / aspect, c1r1 = f,
\* c2r2 = (far + near) / (near - far), c3r2 = 2 far near / (near - far).
\* The aspect of a width and a height of 0 is 0.0 / 0.0, not a number, and so
\* is c0r0; that of a height of 0 alone is infinite and c0r0 is 0.
perspective(fovy, width, height) ==
    LET half == fovy \div 2
        f == RDiv(TrigScale * cos(half), sin(half))
    IN  [c0r0 |-> IF width = 0 THEN NaN ELSE RDiv(f * height, width),
         c1r1 |-> f,
         c2r2 |-> 0 - RDiv(TrigScale * (FAR_TENTHS + NEAR_TENTHS), FAR_TENTHS - NEAR_TENTHS),
         c3r2 |-> 0 - RDiv(TrigScale * 2 * FAR_TENTHS * NEAR_TENTHS,
                           10 * (FAR_TENTHS - NEAR_TENTHS))]

\* Renderer::new, renderer.rs:22-57; programs maps the name of a shader
\* program to whether it links.
Renderer_new(gl, files, programs) ==
    LET model_shader ==
            Shader_new(gl, files, programs["model"], "model", "model.vert", "model.frag")
        skybox_shader ==
            Shader_new(model_shader.gl, files, programs["skybox"], "skybox",
                       "skybox.vert", "skybox.frag")
        g1 == [skybox_shader.gl EXCEPT !.BLEND = TRUE, !.CULL_FACE = FALSE]
    IN  IF ~model_shader.ok
        THEN [model_shader EXCEPT !.err = <<"model shader creation failed">> \o @]
        ELSE IF ~skybox_shader.ok
        THEN [skybox_shader EXCEPT
                !.gl = Shader_drop(@, model_shader.value),
                !.err = <<"skybox shader creation failed">> \o @]
        ELSE [ok |-> TRUE, gl |-> g1, printed |-> <<>>, err |-> <<>>,
              value |-> [projection |-> Matrix4_zero,
                         skybox_shader |-> skybox_shader.value,
                         model_shader |-> model_shader.value]]

\* Drop for Renderer: its fields in the order of their declaration,
\* renderer.rs:12-17.
Renderer_drop(gl, renderer) ==
    Shader_drop(Shader_drop(gl, renderer.skybox_shader), renderer.model_shader)

\* The renderer at work: the GL context, the Renderer, and calls, the GL
\* calls of interest issued so far in this Renderer::draw.  panic is set
\* when the code panicked.
Drawing(gl, renderer) == [gl |-> gl, renderer |-> renderer, calls |-> <<>>, panic |-> FALSE]

\* The GL state a call is recorded with.
GlStateOfCalls ==
    {"CULL_FACE", "DEPTH_TEST", "depth_func", "polygon_mode", "vertex_array",
     "program", "viewport", "clear_color"}

\* A GL call is issued: it is recorded with the pass of Renderer::draw it
\* belongs to, its count of indices, its mask of buffers, the GL state it
\* runs in and the projection of the Renderer.  The return of draw_model and
\* of draw_skybox is recorded in the same way, as the call "return".
Issue(c, call, pass, count, mask) ==
    [c EXCEPT !.calls = Append(@, [call |-> call, pass |-> pass, count |-> count,
                                   mask |-> mask,
                                   gl |-> [f \in GlStateOfCalls |-> c.gl[f]],
                                   projection |-> c.renderer.projection])]

\* resize that leaves the projection as it is.
Renderer_resize_viewport_only(c, physical_width, physical_height, field_of_view) ==
    Issue([c EXCEPT !.gl.viewport = Some(<<physical_width, physical_height>>)],
          "viewport", "resize", 0, {})

\* Renderer::resize, renderer.rs:98-115.  cgmath asserts that the aspect is
\* not zero: a width of 0 with a height that is not panics.
Renderer_resize(c, physical_width, physical_height, field_of_view) ==
    LET c1 == Issue([c EXCEPT !.gl.viewport = Some(<<physical_width, physical_height>>)],
                    "viewport", "resize", 0, {})
    IN  IF physical_width = 0 /\ physical_height # 0
        THEN [c1 EXCEPT !.panic = TRUE]
        ELSE [c1 EXCEPT !.renderer.projection =
                perspective(field_of_view, physical_width, physical_height)]

\* draw_model that resets no state after the draw call.
draw_model_no_reset(c, arch, cam, draw_props, models) ==
    IF Len(models) # 3 \/ draw_props.selected_model_index >= Len(models)
    THEN [c EXCEPT !.panic = TRUE]
    ELSE LET model == models[draw_props.selected_model_index + 1]
             c1 == [c EXCEPT !.gl.program = Some(c.renderer.model_shader.shader_program),
                             !.gl.vertex_array = Some(model.vertex_array)]
             c2 == IF arch = "native"
                   THEN [c1 EXCEPT !.gl.polygon_mode =
                            IF draw_props.wireframe_mode_enabled THEN "LINE" ELSE "FILL"]
                   ELSE c1
             c3 == Issue(c2, "draw_elements", "model", model.indices, {})
         IN  Issue(c3, "return", "model", 0, {})

\* Renderer::draw_model, renderer.rs:117-200; arch is the build.
draw_model(c, arch, cam, draw_props, models) ==
    IF Len(models) # 3 \/ draw_props.selected_model_index >= Len(models)
    THEN [c EXCEPT !.panic = TRUE]
    ELSE LET model == models[draw_props.selected_model_index + 1]
             c1 == [c EXCEPT !.gl.program = Some(c.renderer.model_shader.shader_program),
                             !.gl.vertex_array = Some(model.vertex_array)]
             c2 == IF arch = "native"
                   THEN [c1 EXCEPT !.gl.polygon_mode =
                            IF draw_props.wireframe_mode_enabled THEN "LINE" ELSE "FILL"]
                   ELSE c1
             c3 == Issue(c2, "draw_elements", "model", model.indices, {})
             c4 == IF arch = "native" THEN [c3 EXCEPT !.gl.polygon_mode = "FILL"]
                   ELSE c3
         IN  Issue([c4 EXCEPT !.gl.vertex_array = None], "return", "model", 0, {})

\* The number of indices of the skybox cube, renderer.rs:243
SKYBOX_INDEX_COUNT == 36

\* draw_skybox that leaves the depth function and the face culling as it
\* set them for the draw call.
draw_skybox_no_reset(c, cam, skybox) ==
    LET c1 == [c EXCEPT !.gl.CULL_FACE = FALSE,
                        !.gl.depth_func = "LEQUAL",
                        !.gl.program = Some(c.renderer.skybox_shader.shader_program),
                        !.gl.vertex_array = Some(skybox.vertex_array),
                        !.gl.texture_cube_map = Some(skybox.texture)]
        c2 == Issue(c1, "draw_elements", "skybox", SKYBOX_INDEX_COUNT, {})
    IN  Issue([c2 EXCEPT !.gl.vertex_array = None], "return", "skybox", 0, {})

\* Renderer::draw_skybox, renderer.rs:202-250
draw_skybox(c, cam, skybox) ==
    LET c1 == [c EXCEPT !.gl.CULL_FACE = FALSE,
                        !.gl.depth_func = "LEQUAL",
                        !.gl.program = Some(c.renderer.skybox_shader.shader_program),
                        !.gl.vertex_array = Some(skybox.vertex_array),
                        !.gl.texture_cube_map = Some(skybox.texture)]
        c2 == Issue(c1, "draw_elements", "skybox", SKYBOX_INDEX_COUNT, {})
    IN  Issue([c2 EXCEPT !.gl.vertex_array = None,
                         !.gl.depth_func = "LESS",
                         !.gl.CULL_FACE = TRUE], "return", "skybox", 0, {})

\* Renderer::draw with the skybox drawn before the model.
Renderer_draw_skybox_first(c, arch, framebuffer_size, cam, draw_props, models, skybox) ==
    LET c1 == Renderer_resize(c, framebuffer_size[1], framebuffer_size[2],
                              draw_props.field_of_view)
        c2 == [c1 EXCEPT !.gl.DEPTH_TEST = TRUE,
                         !.gl.clear_color = Some(draw_props.background_color)]
        c3 == Issue(c2, "clear", "clear", 0,
                    {"COLOR_BUFFER_BIT", "DEPTH_BUFFER_BIT"})
        c4 == IF draw_props.skybox_enabled THEN draw_skybox(c3, cam, skybox)
              ELSE c3
    IN  draw_model(c4, arch, cam, draw_props, models)

\* Renderer::draw, renderer.rs:60-96; framebuffer_size is window.inner_size().
Renderer_draw(c, arch, framebuffer_size, cam, draw_props, models, skybox) ==
    LET c1 == Renderer_resize(c, framebuffer_size[1], framebuffer_size[2],
                              draw_props.field_of_view)
        c2 == [c1 EXCEPT !.gl.DEPTH_TEST = TRUE,
                         !.gl.clear_color = Some(draw_props.background_color)]
        c3 == Issue(c2, "clear", "clear", 0,
                    {"COLOR_BUFFER_BIT", "DEPTH_BUFFER_BIT"})
        c4 == draw_model(c3, arch, cam, draw_props, models)
    IN  IF c4.panic \/ ~draw_props.skybox_enabled THEN c4
        ELSE draw_skybox(c4, cam, skybox)

\* ------------------------------------------------ what startup finds

\* The files of the assets directory and whether the shader programs link.
\* An image file decodes or not, to an image of its width and height; a mesh
\* file loads or not, to a mesh of its number of indices; a GLSL file is
\* readable or not and compiles or not.
GoodFiles ==
    [p \in {"right", "left", "top", "bottom", "front", "back"} |->
        [decodes |-> TRUE, width |-> 512, height |-> 512]]
    @@ [p \in {"cube"} |-> [loads |-> TRUE, indices |-> 36]]
    @@ [p \in {"teapot"} |-> [loads |-> TRUE, indices |-> 18]]
    @@ [p \in {"bunny"} |-> [loads |-> TRUE, indices |-> 12]]
    @@ [p \in {"model.vert", "model.frag", "skybox.vert", "skybox.frag"} |->
            [readable |-> TRUE, compiles |-> TRUE]]

\* display: whether the window and its GL context can be created.
GoodEnv ==
    [display |-> TRUE, files |-> GoodFiles,
     programs |-> [model |-> TRUE, skybox |-> TRUE]]

\* The environments in which one step of startup fails.
FailingEnvs ==
    {[GoodEnv EXCEPT !.display = FALSE]}
    \cup {[GoodEnv EXCEPT !.files[p].decodes = FALSE] : p \in {"right", "left", "top", "bottom", "front", "back"}}
    \cup {[GoodEnv EXCEPT !.files[p].loads = FALSE] : p \in {"cube", "teapot", "bunny"}}
    \cup {[GoodEnv EXCEPT !.files[p].readable = FALSE] : p \in {"model.vert", "model.frag", "skybox.vert", "skybox.frag"}}
    \cup {[GoodEnv EXCEPT !.files[p].compiles = FALSE] : p \in {"model.vert", "model.frag", "skybox.vert", "skybox.frag"}}
    \cup {[GoodEnv EXCEPT !.programs[n] = FALSE] : n \in {"model", "skybox"}}

\* The environments in which every image decodes and one has another size
\* than the other five.
MismatchedEnvs ==
    {[GoodEnv EXCEPT !.files[p].width = 256, !.files[p].height = 256] :
        p \in {"right", "left", "top", "bottom", "front", "back"}}

\* ------------------------------------------------------ App::resumed

\* The for loop of app.rs:173-181 from the model with the 0-based index i on,
\* models holding the models pushed so far.
RECURSIVE load_models(_, _, _, _)
load_models(gl, files, i, models) ==
    IF i = Len(model_paths) THEN Ok(gl, models)
    ELSE LET model_path == model_paths[i + 1]
             m == Model_create_from_file(gl, files, model_path)
         IN  IF ~m.ok
             THEN Err(Models_drop(m.gl, models),
                      <<"unable to create model from path", model_path>> \o m.err)
             ELSE load_models(m.gl, files, i + 1, Append(models, m.value))

\* What App::resumed leaves when it returns early: no field is set, printed
\* went to stderr, and the locals are dropped in the reverse order of their
\* declaration, the context and the window (app.rs:141) last.
StartupFailed(gl, printed) ==
    [ok |-> FALSE, gl |-> GlutinWindowContext_drop(gl), window |-> FALSE,
     skybox |-> None, models |-> <<>>, renderer |-> None, gui |-> None,
     printed |-> printed]

\* Gui::new, gui.rs:18-26
Gui_new == [egui_glow |-> "EguiGlow"]

\* App::resumed, were self.window assigned as soon as the window exists.
App_resumed_window_first(env) ==
    IF ~env.display
    THEN StartupFailed(NewGlContext, <<<<"unable to initialize native window">>>>)
    ELSE
    LET s == SkyboxFileBuilder_build(NewGlContext, env.files)
        ms == load_models(s.gl, env.files, 0, <<>>)
        r == Renderer_new(ms.gl, env.files, env.programs)
    IN  IF ~s.ok
        THEN [StartupFailed(s.gl, <<<<"unable to create skybox for application">> \o s.err>>)
                EXCEPT !.window = TRUE]
        ELSE IF ~ms.ok
        THEN [StartupFailed(Skybox_drop(ms.gl, s.value), <<ms.err>>)
                EXCEPT !.window = TRUE]
        ELSE IF ~r.ok
        THEN [StartupFailed(Skybox_drop(Models_drop(r.gl, ms.value), s.value),
                            r.printed \o <<<<"unable to create renderer">> \o r.err>>)
                EXCEPT !.window = TRUE]
        ELSE [ok |-> TRUE, gl |-> r.gl, window |-> TRUE, skybox |-> Some(s.value),
              models |-> ms.value, renderer |-> Some(r.value), gui |-> Some(Gui_new),
              printed |-> <<>>]

\* App::resumed, app.rs:139-245, in the environment env: the fields it sets
\* and what it prints.  A local that goes out of scope at a return is dropped.
App_resumed(env) ==
    IF ~env.display
    THEN StartupFailed(NewGlContext, <<<<"unable to initialize native window">>>>)
    ELSE
    LET s == SkyboxFileBuilder_build(NewGlContext, env.files)
        ms == load_models(s.gl, env.files, 0, <<>>)
        r == Renderer_new(ms.gl, env.files, env.programs)
    IN  IF ~s.ok
        THEN StartupFailed(s.gl, <<<<"unable to create skybox for application">> \o s.err>>)
        ELSE IF ~ms.ok
        THEN StartupFailed(Skybox_drop(ms.gl, s.value), <<ms.err>>)
        ELSE IF ~r.ok
        THEN StartupFailed(Skybox_drop(Models_drop(r.gl, ms.value), s.value),
                           r.printed \o <<<<"unable to create renderer">> \o r.err>>)
        ELSE [ok |-> TRUE, gl |-> r.gl, window |-> TRUE, skybox |-> Some(s.value),
              models |-> ms.value, renderer |-> Some(r.value), gui |-> Some(Gui_new),
              printed |-> <<>>]

\* ------------------------------------------------ the draw properties

\* DrawProperties::default, draw_properties.rs:20-37: the fields the renderer
\* reads at renderer.rs:60-126 and 169, and overlay_gui_enabled, the field
\* read at app.rs:346.  Colours are in tenths, the field of view in angle
\* units.
DrawProperties_default(overlay_gui_enabled) ==
    [background_color |-> <<5, 5, 5>>,
     field_of_view |-> 60 * DegreeScale,
     selected_model_index |-> 2,
     skybox_enabled |-> TRUE,
     wireframe_mode_enabled |-> FALSE,
     vsync_enabled |-> FALSE,
     overlay_gui_enabled |-> overlay_gui_enabled]

\* The values the user gives to the field-of-view slider, 45.0..=120.0
\* (gui.rs:87), and to a colour picker.
FieldsOfView == {45 * DegreeScale, 60 * DegreeScale, 120 * DegreeScale}
Colors == {<<5, 5, 5>>, <<0, 8, 10>>}

\* model_items with an item no mesh is loaded for.
model_items_with_fourth ==
    <<"Blender Cube", "Utah Teapot", "Stanford Bunny", "Suzanne">>

\* model_items, gui.rs:105
model_items == <<"Blender Cube", "Utah Teapot", "Stanford Bunny">>

\* What the widgets of Gui::prepare_frame can leave in draw_props in one
\* frame, gui.rs:86-126: the user changes one widget or none.  The colour
\* button is shown while the skybox is off, the combo box offers the indices
\* of model_items, the wireframe checkbox is compiled for the desktop only.
GuiEdits(props, arch) ==
    {props}
    \cup {[props EXCEPT !.field_of_view = v] : v \in FieldsOfView}
    \cup {[props EXCEPT !.skybox_enabled = v] : v \in BOOLEAN}
    \cup (IF props.skybox_enabled THEN {}
          ELSE {[props EXCEPT !.background_color = v] : v \in Colors})
    \cup {[props EXCEPT !.selected_model_index = index - 1] :
            index \in 1..Len(model_items)}
    \cup (IF arch = "native"
          THEN {[props EXCEPT !.wireframe_mode_enabled = v] : v \in BOOLEAN}
               \cup {[props EXCEPT !.vsync_enabled = v] : v \in BOOLEAN}
          ELSE {})

\* The edits among them that touch no other widget than those of the fields
\* widgets.
EditsWithin(edits, props, widgets) ==
    {edited \in edits : \A field \in (DOMAIN props) \ widgets : edited[field] = props[field]}

\* The fields of draw_props that have a widget, and those of them other than
\* the vertical-sync checkbox.
Widgets ==
    {"field_of_view", "skybox_enabled", "background_color", "selected_model_index",
     "wireframe_mode_enabled", "vsync_enabled"}
SceneWidgets == Widgets \ {"vsync_enabled"}

\* The number of option elements of the select element "model-select" of the
\* page.
MODEL_SELECT_OPTIONS == 3

\* What a callback HtmlUI::new registers can leave in draw_props, html_ui.rs:
\* 35-77: the select element reports the index of one of its options,
\* html_ui.rs:290-294.
HtmlEdits(props) ==
    {[props EXCEPT !.field_of_view = v] : v \in FieldsOfView}
    \cup {[props EXCEPT !.skybox_enabled = v] : v \in BOOLEAN}
    \cup {[props EXCEPT !.background_color = v] : v \in Colors}
    \cup {[props EXCEPT !.selected_model_index = index] :
            index \in 0..(MODEL_SELECT_OPTIONS - 1)}

\* Gui::draw, gui.rs:200-202: egui's painter disables depth testing
\* (renderer.rs:77).
Gui_draw(gl) == [gl EXCEPT !.DEPTH_TEST = FALSE]

\* ------------------------------------------------ RefCell<DrawProperties>

\* The borrow flag of App.draw_props, app.rs:124: the number of shared
\* borrows alive, WRITING while a mutable borrow is alive, and BorrowPanic
\* once a borrow was refused (already borrowed: the handler panics).
WRITING == 0 - 1
BorrowPanic == 0 - 2

\* RefCell::borrow, RefCell::borrow_mut and the drop of the Ref or RefMut.
RefCell_step(flag, op) ==
    IF flag = BorrowPanic THEN BorrowPanic
    ELSE IF op = "borrow" THEN (IF flag >= 0 THEN flag + 1 ELSE BorrowPanic)
    ELSE IF op = "borrow_mut" THEN (IF flag = 0 THEN WRITING ELSE BorrowPanic)
    ELSE IF flag = WRITING THEN 0 ELSE flag - 1

\* The flag after the borrows and drops of a handler, in their order.
RECURSIVE RefCell_after(_, _)
RefCell_after(flag, ops) ==
    IF ops = <<>> THEN flag
    ELSE RefCell_after(RefCell_step(flag, Head(ops)), Tail(ops))

\* App::resumed: app.rs:148 on the desktop once the window exists; in the
\* browser HtmlUI::new reads the initial value of each widget, html_ui.rs:
\* 40, 51, 62, 73.  Each Ref is a temporary of its statement.
resumed_borrows(arch, display) ==
    IF arch = "native"
    THEN (IF display THEN <<"borrow", "drop">> ELSE <<>>)
    ELSE <<"borrow", "drop", "borrow", "drop", "borrow", "drop", "borrow", "drop">>

\* App::update, app.rs:524-531 (desktop only): the comparison borrows, and
\* when the two flags differ the assignment borrows again.
update_borrows(arch, differ) ==
    IF arch # "native" THEN <<>>
    ELSE <<"borrow", "drop">> \o (IF differ THEN <<"borrow", "drop">> ELSE <<>>)

\* App::window_event, Resized with a size that is not zero, app.rs:278.
Resized_borrows == <<"borrow", "drop">>

\* RedrawRequested, were the logic step run under the RefMut of app.rs:345 on
\* the desktop.
RedrawRequested_borrows_update_inside(arch, differ) ==
    <<"borrow_mut">> \o update_borrows("native", differ) \o <<"drop">>

\* App::window_event, RedrawRequested, app.rs:339-376: in the browser
\* update() runs first; the RefMut of app.rs:345 lives to the end of the arm.
RedrawRequested_borrows(arch, differ) ==
    (IF arch = "wasm32" THEN update_borrows(arch, differ) ELSE <<>>)
    \o <<"borrow_mut", "drop">>

\* A callback of the page, html_ui.rs:42, 53, 64, 75: the RefMut is a
\* temporary of the assignment.
oninput_borrows == <<"borrow_mut", "drop">>

\* ----------------------------------------------------- vertical sync

\* GlutinWindowContext::set_vsync_enabled, app.rs:553-562: the swap interval
\* the surface is given.
set_vsync_enabled(vsync_enabled) ==
    IF vsync_enabled THEN "Wait(1)" ELSE "DontWait"

\* App::update without the switch of app.rs:524-531.
update_vsync_never(arch, cached, props, swap_interval) ==
    [vsync_enabled |-> cached, swap_interval |-> swap_interval, set |-> FALSE]

\* App::update, app.rs:524-531: the cached flag and the swap interval after
\* the step, and whether the step called set_vsync_enabled.  The code is
\* compiled for the desktop only.
update_vsync(arch, cached, props, swap_interval) ==
    IF arch = "native" /\ cached # props.vsync_enabled
    THEN [vsync_enabled |-> props.vsync_enabled,
          swap_interval |-> Some(set_vsync_enabled(props.vsync_enabled)),
          set |-> TRUE]
    ELSE [vsync_enabled |-> cached, swap_interval |-> swap_interval, set |-> FALSE]

\* ------------------------------------------------------- mesh files
\* What tobj::load_obj finds in a mesh file: an error, or the meshes
\* of the file, each with its flat positions, normals and indices
\* (tobj::Mesh under GPU_LOAD_OPTIONS).
MaxMeshes == 2
MaxVertices == 2
MaxIndices == 2

\* A mesh of n vertices of which the file gives normal_count normals.  The
\* coordinates tell the meshes and the vertices apart.
TobjMesh(base, n, normal_count, indices) ==
    [positions |-> [i \in 1..(3 * n) |-> 10 * base + i],
     normals   |-> [i \in 1..(3 * normal_count) |-> -(10 * base + i)],
     indices   |-> indices]

IndexSeqs(n) ==
    UNION {[1..len -> 0..(n - 1)] : len \in 1..MaxIndices}

TobjMeshes ==
    {TobjMesh(base, n[1], n[2], indices) :
        base \in 1..MaxMeshes,
        n \in {c \in (1..MaxVertices) \X (0..MaxVertices) : c[2] <= c[1]},
        indices \in IndexSeqs(MaxVertices)}

\* The indices of a mesh are below the number of its vertices.
WellFormedMesh(mesh) ==
    \A i \in 1..Len(mesh.indices) : mesh.indices[i] < Len(mesh.positions) \div 3

ObjPaths == {"assets/meshes/cube.obj"}

ObjFiles ==
    {[path |-> path, parses |-> FALSE, meshes |-> <<>>] : path \in ObjPaths}
    \cup {[path |-> path, parses |-> TRUE, meshes |-> meshes] :
            path \in ObjPaths,
            meshes \in UNION {[1..k -> {m \in TobjMeshes : WellFormedMesh(m)}] :
                                k \in 1..MaxMeshes}}

\* model.rs:100-111: the Vertex pushed for the i-th vertex of a mesh, i from 0.
\* Indexing mesh.normals past its end panics.
Vertex_of(mesh, i) ==
    [position |-> <<mesh.positions[3 * i + 1], mesh.positions[3 * i + 2],
                    mesh.positions[3 * i + 3]>>,
     normal   |-> <<mesh.normals[3 * i + 1], mesh.normals[3 * i + 2],
                    mesh.normals[3 * i + 3]>>]

\* process_obj, model.rs:92-120: the vertices of the meshes one after the
\* other, and the indices of the meshes one after the other as the file has
\* them.
RECURSIVE process_obj_from(_, _, _, _)
process_obj_from(meshes, k, vertices, indices) ==
    IF k > Len(meshes) THEN [panicked |-> FALSE, vertices |-> vertices, indices |-> indices]
    ELSE LET mesh == meshes[k]
             vertices_count == Len(mesh.positions) \div 3
         IN  IF vertices_count > 0 /\ Len(mesh.normals) < 3 * vertices_count
             THEN [panicked |-> TRUE, vertices |-> <<>>, indices |-> <<>>]
             ELSE process_obj_from(meshes, k + 1,
                      vertices \o [i \in 1..vertices_count |-> Vertex_of(mesh, i - 1)],
                      indices \o mesh.indices)

process_obj(meshes) == process_obj_from(meshes, 1, <<>>, <<>>)

\* load_obj_from_file, model.rs:75-80.  outcome is "Ok", "Err" or "panic".
load_obj_from_file(file) ==
    IF ~file.parses
    THEN [outcome |-> "Err", vertices |-> <<>>, indices |-> <<>>,
          err |-> <<"failed to load model from ", file.path, ": ", "tobj::LoadError">>]
    ELSE LET obj == process_obj(file.meshes)
         IN  IF obj.panicked
             THEN [outcome |-> "panic", vertices |-> <<>>, indices |-> <<>>,
                   err |-> <<"index out of bounds">>]
             ELSE [outcome |-> "Ok", vertices |-> obj.vertices,
                   indices |-> obj.indices, err |-> <<>>]

\* ------------------------------------------------------------- state

VARIABLES
    target_arch,          \* "native" or "wasm32": the build (cfg target_arch)
    camera,               \* App.camera
    input_state,          \* App.input_state
    right_mouse_pressed,  \* App.right_mouse_pressed
    window,               \* App.window is Some
    lag,                  \* run(): lag, in ticks
    pc,                   \* position in run()
    resumed_done,         \* the event loop has delivered resumed()
    redraw_requested,     \* window.request_redraw() awaits its RedrawRequested
    exit_requested,       \* event_loop.exit() was called
    elapsed_total,        \* history: sum of the elapsed_time measured so far
    update_count,         \* history: number of App::update calls so far
    inputs_seen,          \* history: "none", "forward_held" or "other"
    held_updates,         \* history: App::update calls made in "forward_held"
    at_release,           \* history: rotation and direction at the last release
    since_press,          \* history: the MouseMotion events handled since the
                          \* button went down: <<>>, <<offsets>> of the one, or Many
    moved_while_released, \* history: a MouseMotion event came since the last
                          \* release, with the button up
    look_count,           \* history: number of Camera::look calls made by the app
    trail,                \* history: the last Camera method calls (SpecCamera)
    env,                  \* the asset files and the display startup finds
    gl,                   \* the GL context
    skybox,               \* App.skybox
    models,               \* App.models
    renderer,             \* App.renderer
    gui,                  \* App.gui
    stderr,               \* the lines written to stderr
    draw_props,           \* App.draw_props
    framebuffer_size,     \* window.inner_size(), <<width, height>>
    resize_pending,       \* a Resized event awaits its delivery
    frame,                \* history: the GL calls of the last RedrawRequested
    rendered_at,          \* history: whether the last frame saw the camera as it is
    edit_count,           \* history: number of edits made in the control panel
    obj_file,             \* the mesh file handed to load_obj_from_file (SpecObj)
    obj_result,           \* what load_obj_from_file made of it
    touched_widgets,      \* the fields of draw_props whose widgets the user touches
    borrow_flag,          \* the borrow flag of the RefCell of App.draw_props
    vsync_enabled,        \* App.vsync_enabled
    swap_interval,        \* the swap interval of the window's surface
    swap_interval_set,    \* history: the last App::update called set_vsync_enabled
    delivered,            \* history: the window events given to App::window_event
    gui_events            \* history: the window events given to Gui::handle_events

\* target_arch and the fields of App the handlers below read and write.
inputVars == <<input_state, right_mouse_pressed>>
loopVars == <<window, lag, pc, resumed_done, redraw_requested, exit_requested>>
\* The history variables: they record what happened and steer nothing.
stepHist == <<update_count, held_updates>>
lookHist == <<at_release, since_press, look_count, moved_while_released>>
\* The resources, the GL context and the renderer, the draw properties, the
\* size of the window, and the history of the frames.
resVars == <<skybox, models, stderr, gui>>
glVars == <<gl, renderer>>
drawVars == <<draw_props, edit_count>>
sizeVars == <<framebuffer_size, resize_pending>>
frameHist == <<frame, rendered_at>>
objVars == <<obj_file, obj_result>>
\* The window events followed one by one (SpecEvents).
eventHist == <<delivered, gui_events>>
\* The cached vertical-sync flag, the surface's swap interval and its history.
vsyncVars == <<vsync_enabled, swap_interval, swap_interval_set>>
sceneVars == <<env, resVars, glVars, drawVars, sizeVars, frameHist, objVars,
              touched_widgets, eventHist>>

vars ==
    <<target_arch, camera, inputVars, loopVars, elapsed_total, stepHist,
      inputs_seen, lookHist, trail, sceneVars, borrow_flag, vsyncVars>>

appVars ==
    <<target_arch, inputVars, loopVars, elapsed_total, stepHist, inputs_seen,
      lookHist, sceneVars, borrow_flag, vsyncVars>>

\* InputEvent, app.rs:64-71
InputEvents ==
    {"MoveForward", "MoveBackward", "StrafeLeft", "StrafeRight", "Ascend", "Descend"}

\* app.rs:47-48
WINDOW_WIDTH == 1024
WINDOW_HEIGHT == 768

\* App::new, app.rs:415-439.  The environment and the value of
\* draw_props.overlay_gui_enabled are left to the specification.
InitApp(arch) ==
    /\ target_arch = arch
    /\ camera = InitialCamera
    /\ input_state = [e \in InputEvents |-> FALSE]
    /\ right_mouse_pressed = FALSE
    /\ window = FALSE
    /\ lag = 0
    /\ pc = IF arch = "native" THEN "measure" ELSE "run_app"
    /\ resumed_done = FALSE
    /\ redraw_requested = FALSE
    /\ exit_requested = FALSE
    /\ elapsed_total = 0
    /\ update_count = 0
    /\ inputs_seen = "none"
    /\ held_updates = 0
    /\ at_release = [rotation |-> InitialCamera.rotation,
                     direction |-> InitialCamera.direction]
    /\ since_press = <<>>
    /\ look_count = 0
    /\ moved_while_released = FALSE
    /\ trail = <<>>
    /\ gl = NewGlContext
    /\ skybox = None
    /\ models = <<>>
    /\ renderer = None
    /\ gui = None
    /\ stderr = <<>>
    /\ framebuffer_size = <<WINDOW_WIDTH, WINDOW_HEIGHT>>
    /\ resize_pending = FALSE
    /\ frame = <<>>
    /\ rendered_at = None
    /\ edit_count = 0
    /\ obj_result = None
    /\ borrow_flag = 0
    /\ vsync_enabled = FALSE
    /\ swap_interval = None
    /\ swap_interval_set = FALSE
    /\ delivered = <<>>
    /\ gui_events = <<>>

\* The application started where every asset is in place, the overlay off.
InitAppGood(arch) ==
    /\ InitApp(arch)
    /\ env = GoodEnv
    /\ draw_props = DrawProperties_default(FALSE)
    /\ obj_file = None
    /\ touched_widgets = {}

\* ------------------------------------------- the Camera on its own

\* Offsets (x, y) passed to Camera::look, in pixels.
LookOffsets ==
    {<<10, 5>>, <<0 - 10, 0 - 5>>, <<1300, 1100>>, <<0 - 2500, 0 - 800>>, <<0, 0>>}

MoveMethods ==
    {"move_forward", "move_backward", "strafe_left", "strafe_right", "ascend", "descend"}

\* The Camera method named m applied with delta_time dt.
ApplyMove(cam, m, dt) ==
    CASE m = "move_forward" -> move_forward(cam, dt)
      [] m = "move_backward" -> move_backward(cam, dt)
      [] m = "strafe_left" -> strafe_left(cam, dt)
      [] m = "strafe_right" -> strafe_right(cam, dt)
      [] m = "ascend" -> ascend(cam, dt)
      [] m = "descend" -> descend(cam, dt)

\* The last two calls, each with the camera it was made on.
Remember(call) == IF Len(trail) < 2 THEN Append(trail, call) ELSE <<trail[2], call>>

\* Number of Camera method calls made so far.
CallsMade == IF trail = <<>> THEN 0 ELSE trail[Len(trail)].n

\* A caller invokes camera.look(x_offset, y_offset).
CallLook ==
    /\ CallsMade < MaxCalls
    /\ \E o \in LookOffsets :
        /\ camera' = look(camera, o[1], o[2])
        /\ trail' = Remember([op |-> "look", x |-> o[1], y |-> o[2], dt |-> 0,
                              before |-> camera,
                              n |-> CallsMade + 1])
    /\ UNCHANGED appVars

\* A caller invokes one of the six movement methods with delta_time dt.
CallMove ==
    /\ CallsMade < MaxCalls
    /\ \E m \in MoveMethods, dt \in 1..MaxDt :
        /\ camera' = ApplyMove(camera, m, dt)
        /\ trail' = Remember([op |-> m, x |-> 0, y |-> 0, dt |-> dt,
                              before |-> camera,
                              n |-> CallsMade + 1])
    /\ UNCHANGED appVars

InitCamera == InitAppGood("native")

NextCamera == CallLook \/ CallMove

\* Every finite sequence of Camera method calls on the application's camera.
SpecCamera == InitCamera /\ [][NextCamera]_vars

\* ------------------------------------------------- claims on the Camera

\* The last Camera method call made, when there is one.
LastCall == trail[Len(trail)]

YawOf(cam) == cam.rotation.x
PitchOf(cam) == cam.rotation.y

\* C1: from the application's initial camera (yaw 240, pitch -15), after any
\* finite sequence of look calls with positive or negative offsets the stored
\* yaw satisfies 0 <= yaw < 360.
C1_YawInRange ==
    /\ 0 <= YawOf(camera)
    /\ YawOf(camera) < 360 * DegreeScale

\* C1 witness: a second or later look whose accumulated yaw went below zero.
C1_Witness ==
    /\ trail # <<>>
    /\ LastCall.op = "look"
    /\ LastCall.n >= 2
    /\ YawOf(LastCall.before) + LastCall.x * LOOK_SENSITIVITY < 0

\* C2: after any finite sequence of look calls -89 <= pitch <= 89, and once
\* pitch equals a bound a further look in the same vertical direction leaves
\* pitch at that bound.
C2_PitchClamped ==
    /\ 0 - 89 * DegreeScale <= PitchOf(camera)
    /\ PitchOf(camera) <= 89 * DegreeScale
    /\ (trail # <<>> /\ LastCall.op = "look") =>
        /\ (PitchOf(LastCall.before) = 89 * DegreeScale /\ LastCall.y >= 0)
              => PitchOf(camera) = 89 * DegreeScale
        /\ (PitchOf(LastCall.before) = 0 - 89 * DegreeScale /\ LastCall.y <= 0)
              => PitchOf(camera) = 0 - 89 * DegreeScale

\* C2 witness: a look further up made on a camera whose pitch is already 89.
C2_Witness ==
    /\ trail # <<>>
    /\ LastCall.op = "look"
    /\ PitchOf(LastCall.before) = 89 * DegreeScale
    /\ LastCall.y > 0

\* C3 as stated: after any look call the stored yaw lies in [0, 359), that is
\* yaw >= 0 and yaw strictly less than 359.
C3_YawBelow359 ==
    /\ 0 <= YawOf(camera)
    /\ YawOf(camera) < 359 * DegreeScale

\* C3 as amended: after any look call the stored yaw lies in the closed range
\* [0, 359]; 359 itself is stored (it is what a yaw below 0 wraps to).
C3_YawAtMost359 ==
    /\ 0 <= YawOf(camera)
    /\ YawOf(camera) <= 359 * DegreeScale

\* C3 witness: a look that left the yaw at exactly 359.
C3_Witness ==
    /\ trail # <<>>
    /\ LastCall.op = "look"
    /\ YawOf(camera) = 359 * DegreeScale

\* C4 as stated: look(xOffset, yOffset) leaves the yaw congruent to
\* old yaw + xOffset * sensitivity modulo 360, also across the 0/360 boundary.
C4_YawCongruent ==
    (trail # <<>> /\ LastCall.op = "look") =>
        YawOf(camera) =
            (YawOf(LastCall.before) + LastCall.x * LOOK_SENSITIVITY) % (360 * DegreeScale)

\* C5: in every state of the Camera (after construction and after every look
\* or movement call) the stored direction is the spherical-to-Cartesian
\* function of the stored (yaw, pitch).
C5_DirectionFollowsRotation ==
    camera.direction = update_direction(camera).direction

\* C5 witness: a look that changed the rotation, followed by a movement call.
C5_Witness ==
    /\ Len(trail) = 2
    /\ trail[1].op = "look"
    /\ trail[1].before.rotation # camera.rotation
    /\ trail[2].op = "move_forward"

MaxElapsed == 2 * FIXED_UPDATE_TIMESTEP + 1
\* elapsed_time is measured until MaxTime ticks have passed in all.
MaxTime == MaxUpdates * FIXED_UPDATE_TIMESTEP + (FIXED_UPDATE_TIMESTEP - 1)

\* Physical keys the user touches: the forward key and a key that is no
\* movement key.
KeyCodes == {"KeyW", "KeyQ"}

ElementStates == {"Pressed", "Released"}

\* Raw mouse motion deltas (offset_x, offset_y) the device reports.
MotionOffsets == {<<10, 5>>, <<1300, 1100>>}

\* The match on key of the KeyboardInput arm, app.rs:296-304; "None" is the
\* arm "_ => return".
key_to_input_event(key) ==
    CASE key = "KeyW" -> "MoveForward"
      [] key = "KeyS" -> "MoveBackward"
      [] key = "KeyA" -> "StrafeLeft"
      [] key = "KeyD" -> "StrafeRight"
      [] key = "Space" -> "Ascend"
      [] key = "KeyC" -> "Descend"
      [] OTHER -> "None"

\* A key that moves the camera in the first logic update step only.
IfPressed_single_shot(inp, e, cam, moved) ==
    IF inp[e] /\ update_count = 0 THEN moved ELSE cam

\* One "if self.input_state[e] { self.camera.m(FIXED_UPDATE_TIMESTEP) }",
\* app.rs:505-522.
IfPressed(inp, e, cam, moved) == IF inp[e] THEN moved ELSE cam

\* App::update, keyboard input, app.rs:503-522: the camera after the step.
update_camera(cam, inp) ==
    LET c1 == IfPressed(inp, "MoveForward", cam, move_forward(cam, FIXED_UPDATE_TIMESTEP))
        c2 == IfPressed(inp, "MoveBackward", c1, move_backward(c1, FIXED_UPDATE_TIMESTEP))
        c3 == IfPressed(inp, "StrafeLeft", c2, strafe_left(c2, FIXED_UPDATE_TIMESTEP))
        c4 == IfPressed(inp, "StrafeRight", c3, strafe_right(c3, FIXED_UPDATE_TIMESTEP))
        c5 == IfPressed(inp, "Ascend", c4, ascend(c4, FIXED_UPDATE_TIMESTEP))
        c6 == IfPressed(inp, "Descend", c5, descend(c5, FIXED_UPDATE_TIMESTEP))
    IN  c6

\* App::update, app.rs:503-532, with its history.  The frame-rate counters
\* of run() touch no variable of this model.
update ==
    /\ camera' = update_camera(camera, input_state)
    /\ LET v == update_vsync(target_arch, vsync_enabled, draw_props, swap_interval)
       IN  /\ vsync_enabled' = v.vsync_enabled
           /\ swap_interval' = v.swap_interval
           /\ swap_interval_set' = v.set
    /\ update_count' = update_count + 1
    /\ held_updates' = IF inputs_seen = "forward_held" THEN held_updates + 1
                       ELSE held_updates

\* The event loop is dispatching events to the handlers.
Dispatching ==
    /\ pc \in {"pump", "run_app"}
    /\ resumed_done

\* Whether a window event can be delivered: the window exists.
WindowEventsFlow == Dispatching /\ window

\* App::resumed, app.rs:139-245: every field is set, or (an initialisation
\* step failed) none is.
resumed ==
    /\ pc \in {"pump", "run_app"}
    /\ ~resumed_done
    /\ resumed_done' = TRUE
    /\ \E r \in {App_resumed(env)} :
           /\ window' = r.window
           /\ gui' = r.gui
           /\ gl' = r.gl
           /\ skybox' = r.skybox
           /\ models' = r.models
           /\ renderer' = r.renderer
           /\ stderr' = stderr \o r.printed
           /\ swap_interval' = IF target_arch = "native" /\ r.ok
                               THEN Some(set_vsync_enabled(draw_props.vsync_enabled))
                               ELSE None
    /\ vsync_enabled' = IF target_arch = "native" /\ env.display
                        THEN draw_props.vsync_enabled ELSE vsync_enabled
    /\ borrow_flag' = RefCell_after(borrow_flag, resumed_borrows(target_arch, env.display))
    /\ UNCHANGED <<target_arch, swap_interval_set, objVars, touched_widgets,
                   eventHist, env, drawVars, sizeVars, frameHist, camera,
                   inputVars, lag, pc, redraw_requested, exit_requested,
                   elapsed_total, stepHist, inputs_seen, lookHist, trail>>

\* App::window_event, CloseRequested or a KeyboardInput whose logical key is
\* Escape, app.rs:254-262.
window_event_CloseRequested ==
    /\ WindowEventsFlow
    /\ exit_requested' = TRUE
    /\ inputs_seen' = "other"
    /\ UNCHANGED <<target_arch, borrow_flag, vsyncVars, sceneVars, camera,
                   inputVars, window, lag, pc, resumed_done, redraw_requested,
                   elapsed_total, stepHist, lookHist, trail>>

\* The history of the keys: "forward_held" while the only input so far is
\* one press of the forward key (and the repeats the keyboard sends for it).
KeySeen(key, state, repeat) ==
    CASE key = "KeyW" /\ state = "Pressed" /\ ~repeat /\ inputs_seen = "none"
            -> "forward_held"
      [] key = "KeyW" /\ state = "Pressed" /\ repeat /\ inputs_seen = "forward_held"
            -> "forward_held"
      [] OTHER -> "other"

\* The KeyboardInput arm of App::window_event, app.rs:285-306: input_state
\* after the event.  An event with repeat or is_synthetic set matches no arm
\* but "_ => ()".
keyboard_input(inp, key, state, repeat, is_synthetic) ==
    IF ~repeat /\ ~is_synthetic /\ key_to_input_event(key) # "None"
    THEN [inp EXCEPT ![key_to_input_event(key)] = (state = "Pressed")]
    ELSE inp

\* App::window_event, KeyboardInput, app.rs:285-306.
window_event_KeyboardInput ==
    /\ WindowEventsFlow
    /\ \E key \in KeyCodes, state \in ElementStates, repeat \in BOOLEAN,
          is_synthetic \in BOOLEAN :
        /\ input_state' = keyboard_input(input_state, key, state, repeat, is_synthetic)
        /\ inputs_seen' = IF is_synthetic THEN "other" ELSE KeySeen(key, state, repeat)
    /\ UNCHANGED <<target_arch, borrow_flag, vsyncVars, sceneVars, camera,
                   right_mouse_pressed, loopVars, elapsed_total, stepHist,
                   lookHist, trail>>

\* App::window_event, MouseInput of the right button, app.rs:307-338.
window_event_MouseInput ==
    /\ WindowEventsFlow
    /\ \E state \in ElementStates :
        /\ right_mouse_pressed' = (state = "Pressed")
        /\ at_release' =
              IF state = "Released"
              THEN [rotation |-> camera.rotation, direction |-> camera.direction]
              ELSE at_release
        /\ since_press' =
              IF state = "Pressed" /\ right_mouse_pressed THEN since_press
              ELSE <<>>
        /\ moved_while_released' =
              IF state = "Released" THEN FALSE ELSE moved_while_released
    /\ inputs_seen' = "other"
    /\ UNCHANGED <<target_arch, borrow_flag, vsyncVars, sceneVars, camera,
                   input_state, loopVars, elapsed_total, stepHist, look_count,
                   trail>>

\* The value of since_press after two or more MouseMotion events.
Many == <<<<0, 0>>, <<0, 0>>>>

\* device_event without the test of right_mouse_pressed of app.rs:398.
device_event_always_looks(cam, pressed, offset_x, offset_y) ==
    look(cam, offset_x, offset_y)

\* The body of App::device_event, app.rs:392-403: the camera after a
\* MouseMotion event.
device_event_camera(cam, pressed, offset_x, offset_y) ==
    IF pressed THEN look(cam, offset_x, offset_y) ELSE cam

\* App::device_event, MouseMotion, app.rs:386-404.  Device events need no
\* window.
device_event_MouseMotion ==
    /\ Dispatching
    /\ right_mouse_pressed => look_count < MaxLooks
    /\ \E o \in MotionOffsets :
        /\ camera' = device_event_camera(camera, right_mouse_pressed, o[1], o[2])
        /\ since_press' =
              IF ~right_mouse_pressed THEN since_press
              ELSE IF since_press = <<>> THEN <<o>> ELSE Many
    /\ look_count' = IF right_mouse_pressed THEN look_count + 1 ELSE look_count
    /\ moved_while_released' = (moved_while_released \/ ~right_mouse_pressed)
    /\ inputs_seen' = "other"
    /\ UNCHANGED <<target_arch, borrow_flag, vsyncVars, sceneVars, inputVars,
                   loopVars, elapsed_total, stepHist, at_release, trail>>

\* The window system gives the window another size; the Resized event that
\* tells of it is delivered later.
FramebufferSizes == {<<WINDOW_WIDTH, WINDOW_HEIGHT>>, <<WINDOW_HEIGHT, WINDOW_HEIGHT>>}

system_resizes_window ==
    /\ WindowEventsFlow
    /\ \E size \in FramebufferSizes \ {framebuffer_size} : framebuffer_size' = size
    /\ resize_pending' = TRUE
    /\ UNCHANGED <<target_arch, borrow_flag, vsyncVars, objVars,
                   touched_widgets, eventHist, env, resVars, glVars, drawVars,
                   frameHist, camera, inputVars, loopVars, elapsed_total,
                   stepHist, inputs_seen, lookHist, trail>>

\* App::window_event, Resized, app.rs:263-284.
window_event_Resized ==
    /\ WindowEventsFlow
    /\ resize_pending
    /\ resize_pending' = FALSE
    /\ LET physical_size == framebuffer_size
           c == Renderer_resize(Drawing(gl, unwrap(renderer)), physical_size[1],
                                physical_size[2], draw_props.field_of_view)
       IN  IF physical_size[1] # 0 /\ physical_size[2] # 0
           THEN /\ gl' = c.gl
                /\ renderer' = Some(c.renderer)
                /\ borrow_flag' = RefCell_after(borrow_flag, Resized_borrows)
           ELSE UNCHANGED <<glVars, borrow_flag>>
    /\ UNCHANGED <<target_arch, vsyncVars, objVars, touched_widgets, eventHist,
                   env, resVars, drawVars, framebuffer_size, frameHist, camera,
                   inputVars, loopVars, elapsed_total, stepHist, inputs_seen,
                   lookHist, trail>>

\* A callback HtmlUI::new registered is called, html_ui.rs:35-77.
html_ui_oninput ==
    /\ WindowEventsFlow
    /\ target_arch = "wasm32"
    /\ edit_count < MaxEdits
    /\ \E props \in HtmlEdits(draw_props) \ {draw_props} : draw_props' = props
    /\ edit_count' = edit_count + 1
    /\ borrow_flag' = RefCell_after(borrow_flag, oninput_borrows)
    /\ UNCHANGED <<target_arch, vsyncVars, objVars, touched_widgets, eventHist,
                   env, resVars, glVars, sizeVars, frameHist, camera, inputVars,
                   loopVars, elapsed_total, stepHist, inputs_seen, lookHist,
                   trail>>

\* The handler of RedrawRequested dispatched inside the while loop of
\* run() as well.
RedrawEventsFlow_inside_drain_loop ==
    /\ pc \in {"pump", "run_app", "drain"}
    /\ resumed_done
    /\ window

\* Whether a RedrawRequested event can be delivered.
RedrawEventsFlow == WindowEventsFlow

\* The camera Renderer::draw is given, app.rs:362.
camera_passed(cam) == cam

\* App::window_event, RedrawRequested, app.rs:339-376.  In the browser the
\* handler first runs one logic update step.  The widgets of the overlay
\* write what the user did to them, the renderer draws, the overlay is
\* painted and the buffers are swapped.
window_event_RedrawRequested ==
    /\ RedrawEventsFlow
    /\ redraw_requested
    /\ redraw_requested' = FALSE
    /\ IF target_arch = "wasm32"
       THEN /\ update_count < MaxUpdates
            /\ update
       ELSE UNCHANGED <<camera, stepHist, vsyncVars>>
    /\ borrow_flag' =
          RefCell_after(borrow_flag,
              RedrawRequested_borrows(target_arch,
                                      vsync_enabled # draw_props.vsync_enabled))
    /\ \E props \in (IF draw_props.overlay_gui_enabled
                      THEN EditsWithin(GuiEdits(draw_props, target_arch), draw_props,
                                       touched_widgets)
                      ELSE {draw_props}) :
        LET c == Renderer_draw(Drawing(gl, unwrap(renderer)), target_arch,
                               framebuffer_size, camera_passed(camera'), props,
                               models, unwrap(skybox))
            painted == IF props.overlay_gui_enabled
                       THEN [c EXCEPT !.gl = Gui_draw(c.gl)] ELSE c
            swapped == IF target_arch = "native"
                       THEN Issue(painted, "swap_buffers", "present", 0, {})
                       ELSE painted
        IN  /\ props # draw_props => edit_count < MaxEdits
            /\ draw_props' = props
            /\ edit_count' = IF props # draw_props THEN edit_count + 1 ELSE edit_count
            /\ gl' = swapped.gl
            /\ renderer' = Some(swapped.renderer)
            /\ frame' = IF c.panic THEN c.calls ELSE swapped.calls
            /\ pc' = IF c.panic THEN "panicked" ELSE pc
    /\ rendered_at' = Some([camera_is_latest |-> camera_passed(camera') = camera'])
    /\ UNCHANGED <<target_arch, objVars, touched_widgets, eventHist, env,
                   resVars, sizeVars, inputVars, window, lag, resumed_done,
                   exit_requested, elapsed_total, inputs_seen, lookHist, trail>>

\* ---------------------------------------------------- run(), native

\* run(), app.rs:459-466: measure the time elapsed since the last iteration.
run_measure ==
    /\ pc = "measure"
    /\ \E elapsed_time \in 0..MaxElapsed :
        /\ elapsed_total + elapsed_time <= MaxTime
        /\ lag' = lag + elapsed_time
        /\ elapsed_total' = elapsed_total + elapsed_time
    /\ pc' = "pump"
    /\ UNCHANGED <<target_arch, borrow_flag, vsyncVars, sceneVars, camera,
                   inputVars, window, resumed_done, redraw_requested,
                   exit_requested, stepHist, inputs_seen, lookHist, trail>>

\* pump_app_events returns, were PumpStatus::Exit not looked at.
run_pump_returns_ignoring_exit ==
    /\ pc = "pump"
    /\ resumed_done
    /\ pc' = "drain"
    /\ UNCHANGED <<target_arch, borrow_flag, vsyncVars, sceneVars, camera,
                   inputVars, window, lag, resumed_done, redraw_requested,
                   exit_requested, elapsed_total, stepHist, inputs_seen,
                   lookHist, trail>>

\* run(), app.rs:468-472: pump_app_events returns; PumpStatus::Exit breaks.
run_pump_returns ==
    /\ pc = "pump"
    /\ resumed_done
    /\ pc' = IF exit_requested THEN "exited" ELSE "drain"
    /\ UNCHANGED <<target_arch, borrow_flag, vsyncVars, sceneVars, camera,
                   inputVars, window, lag, resumed_done, redraw_requested,
                   exit_requested, elapsed_total, stepHist, inputs_seen,
                   lookHist, trail>>

\* The loop condition written "lag > FIXED_UPDATE_TIMESTEP".
drain_condition_strict(l) == l > FIXED_UPDATE_TIMESTEP

\* run(), app.rs:474: the condition of "while lag >= FIXED_UPDATE_TIMESTEP".
drain_condition(l) == l >= FIXED_UPDATE_TIMESTEP

\* run(), app.rs:474-477: one iteration of the while loop.
run_drain_step ==
    /\ pc = "drain"
    /\ drain_condition(lag)
    /\ update
    /\ borrow_flag' =
          RefCell_after(borrow_flag,
              update_borrows(target_arch, vsync_enabled # draw_props.vsync_enabled))
    /\ lag' = lag - FIXED_UPDATE_TIMESTEP
    /\ UNCHANGED <<target_arch, sceneVars, inputVars, window, pc, resumed_done,
                   redraw_requested, exit_requested, elapsed_total, inputs_seen,
                   lookHist, trail>>

\* run(), app.rs:474: the loop condition fails.
run_drain_done ==
    /\ pc = "drain"
    /\ ~drain_condition(lag)
    /\ pc' = "request_redraw"
    /\ UNCHANGED <<target_arch, borrow_flag, vsyncVars, sceneVars, camera,
                   inputVars, window, lag, resumed_done, redraw_requested,
                   exit_requested, elapsed_total, stepHist, inputs_seen,
                   lookHist, trail>>

\* run(), app.rs:479-480: self.window.as_ref().unwrap() panics on None.
run_request_redraw ==
    /\ pc = "request_redraw"
    /\ pc' = IF window THEN "measure" ELSE "panicked"
    /\ redraw_requested' = (window \/ redraw_requested)
    /\ UNCHANGED <<target_arch, borrow_flag, vsyncVars, sceneVars, camera,
                   inputVars, window, lag, resumed_done, exit_requested,
                   elapsed_total, stepHist, inputs_seen, lookHist, trail>>

\* main returns, main.rs:10-17: app is dropped, its fields in the order of
\* their declaration, app.rs:110-131: the window, the context and surface,
\* the renderer, the skybox, the models.
main_returns ==
    /\ pc = "exited"
    /\ target_arch = "native"
    /\ pc' = "returned"
    /\ window' = FALSE
    /\ LET g0 == GlutinWindowContext_drop(gl)
           g1 == IF renderer = None THEN g0 ELSE Renderer_drop(g0, unwrap(renderer))
           g2 == IF skybox = None THEN g1 ELSE Skybox_drop(g1, unwrap(skybox))
       IN  gl' = Models_drop(g2, models)
    /\ renderer' = None
    /\ skybox' = None
    /\ models' = <<>>
    /\ gui' = None
    /\ UNCHANGED <<target_arch, borrow_flag, vsyncVars, objVars,
                   touched_widgets, eventHist, env, stderr, drawVars, sizeVars,
                   frameHist, camera, inputVars, lag, resumed_done,
                   redraw_requested, exit_requested, elapsed_total, stepHist,
                   inputs_seen, lookHist, trail>>

\* The native application, every asset in place, the overlay off.
Init == InitAppGood("native")

Next ==
    \/ resumed
    \/ window_event_CloseRequested
    \/ window_event_KeyboardInput
    \/ window_event_MouseInput
    \/ window_event_RedrawRequested
    \/ device_event_MouseMotion
    \/ run_measure
    \/ run_pump_returns
    \/ run_drain_step
    \/ run_drain_done
    \/ run_request_redraw
    \/ main_returns

\* The native application: App::new, then run().
Spec == Init /\ [][Next]_vars

\* The native application, the thread of run() never stopping inside the
\* while loop of app.rs:474-477.
SpecLive == Spec /\ WF_vars(run_drain_step) /\ WF_vars(run_drain_done)

\* The native application, pump_app_events (called with a timeout of zero)
\* returning at last.
SpecExit == SpecLive /\ WF_vars(run_pump_returns)

\* --------------------------------------------------- run(), browser

\* App::about_to_wait, app.rs:406-411.  The time until the next animation
\* frame, at least one tick, passes here.
about_to_wait ==
    /\ Dispatching
    /\ target_arch = "wasm32"
    /\ \E elapsed_time \in 1..MaxElapsed :
        /\ elapsed_total + elapsed_time <= MaxTime
        /\ elapsed_total' = elapsed_total + elapsed_time
    /\ redraw_requested' = (window \/ redraw_requested)
    /\ UNCHANGED <<target_arch, borrow_flag, vsyncVars, sceneVars, camera,
                   inputVars, window, lag, pc, resumed_done, exit_requested,
                   stepHist, inputs_seen, lookHist, trail>>

\* run(), app.rs:494-501: run_app returns once the loop was asked to exit.
run_app_returns ==
    /\ pc = "run_app"
    /\ exit_requested
    /\ pc' = "exited"
    /\ UNCHANGED <<target_arch, borrow_flag, vsyncVars, sceneVars, camera,
                   inputVars, window, lag, resumed_done, redraw_requested,
                   exit_requested, elapsed_total, stepHist, inputs_seen,
                   lookHist, trail>>

InitWeb == InitAppGood("wasm32")

NextWeb ==
    \/ resumed
    \/ window_event_CloseRequested
    \/ window_event_KeyboardInput
    \/ window_event_MouseInput
    \/ window_event_RedrawRequested
    \/ device_event_MouseMotion
    \/ about_to_wait
    \/ run_app_returns

\* The browser application: App::new, then run().
SpecWeb == InitWeb /\ [][NextWeb]_vars

\* ------------------------------------------- the user at the panel

\* Either build, every asset in place, the user at the control panel (the
\* overlay on the desktop, the page in the browser) and the window system
\* resizing the window; no key and no mouse button is touched.
InitPanel ==
    \E arch \in {"native", "wasm32"} :
        /\ InitApp(arch)
        /\ env = GoodEnv
        /\ draw_props = DrawProperties_default(arch = "native")
        /\ obj_file = None
        /\ touched_widgets = SceneWidgets

NextPanel ==
    \/ resumed
    \/ system_resizes_window
    \/ window_event_Resized
    \/ window_event_RedrawRequested
    \/ html_ui_oninput
    \/ about_to_wait
    \/ run_measure
    \/ run_pump_returns
    \/ run_drain_step
    \/ run_drain_done
    \/ run_request_redraw

SpecPanel == InitPanel /\ [][NextPanel]_vars

\* ------------------------------------------------ startup and shutdown

\* The native application in every environment: every asset in place, one
\* step of startup failing, or one image of the skybox of another size; the
\* user does nothing but close the window.
InitStartup ==
    /\ InitApp("native")
    /\ env \in {GoodEnv} \cup FailingEnvs \cup MismatchedEnvs
    /\ draw_props = DrawProperties_default(FALSE)
    /\ obj_file = None
    /\ touched_widgets = {}

NextStartup ==
    \/ resumed
    \/ window_event_CloseRequested
    \/ window_event_RedrawRequested
    \/ run_measure
    \/ run_pump_returns
    \/ run_drain_step
    \/ run_drain_done
    \/ run_request_redraw
    \/ main_returns

SpecStartup == InitStartup /\ [][NextStartup]_vars

\* ------------------------------------------- the window events one by one

MaxEvents == 2

\* The window events winit delivers: the close request, a key with its
\* state, repeat and is_synthetic (Escape is a logical key, the others are
\* physical key codes), a mouse button, a new size, the redraw request, and
\* the cursor moving (one of the events App::window_event has no arm for).
WindowEvents ==
    {[type |-> "CloseRequested"], [type |-> "RedrawRequested"], [type |-> "CursorMoved"]}
    \cup {[type |-> "KeyboardInput", key |-> key, state |-> state, repeat |-> repeat,
           is_synthetic |-> is_synthetic] :
            key \in KeyCodes \cup {"Escape"}, state \in ElementStates,
            repeat \in BOOLEAN, is_synthetic \in BOOLEAN}
    \cup {[type |-> "MouseInput", button |-> button, state |-> state] :
            button \in {"Left", "Right"}, state \in ElementStates}
    \cup {[type |-> "Resized", physical_size |-> size] :
            size \in FramebufferSizes \cup {<<0, 0>>}}

\* The arm of the match of App::window_event the event takes, app.rs:253-378;
\* "return" is the "_ => return" of the KeyboardInput arm, app.rs:303, "_" the
\* last arm.
window_event_arm(event) ==
    CASE event.type = "CloseRequested" -> "exit"
      [] event.type = "KeyboardInput" /\ event.key = "Escape" -> "exit"
      [] event.type = "KeyboardInput" /\ event.key # "Escape"
            /\ ~event.repeat /\ ~event.is_synthetic
            -> IF key_to_input_event(event.key) # "None" THEN "input" ELSE "return"
      [] event.type = "Resized" /\ event.physical_size[1] # 0
            /\ event.physical_size[2] # 0 -> "resize"
      [] event.type = "MouseInput" /\ event.button = "Right" -> "mouse"
      [] event.type = "RedrawRequested" -> "redraw"
      [] OTHER -> "_"

\* Whether App::window_event reaches the call of gui.handle_events that
\* follows its match, app.rs:380-383.
reaches_handle_events(event) == window_event_arm(event) # "return"

\* App::window_event, app.rs:247-384, followed for what it forwards: the event
\* delivered, and the event handed to Gui::handle_events after the match.
window_event ==
    /\ WindowEventsFlow
    /\ Len(delivered) < MaxEvents
    /\ \E event \in WindowEvents :
        /\ delivered' = Append(delivered, event)
        /\ gui_events' = IF reaches_handle_events(event)
                         THEN Append(gui_events, event) ELSE gui_events
    /\ UNCHANGED <<target_arch, borrow_flag, vsyncVars, camera, inputVars,
                   loopVars, elapsed_total, stepHist, inputs_seen, lookHist,
                   trail, env, resVars, glVars, drawVars, sizeVars, frameHist,
                   objVars, touched_widgets>>

\* The native application, every asset in place; window events of every kind
\* arrive.
InitEvents == InitAppGood("native")

NextEvents ==
    \/ run_measure
    \/ resumed
    \/ window_event

SpecEvents == InitEvents /\ [][NextEvents]_vars

\* ------------------------------------------- the window minimised

\* The window system minimises the window: its inner size becomes 0 x 0, and
\* the Resized event that tells of it is delivered later.
system_minimizes_window ==
    /\ WindowEventsFlow
    /\ framebuffer_size # <<0, 0>>
    /\ framebuffer_size' = <<0, 0>>
    /\ resize_pending' = TRUE
    /\ UNCHANGED <<target_arch, borrow_flag, vsyncVars, objVars,
                   touched_widgets, eventHist, env, resVars, glVars, drawVars,
                   frameHist, camera, inputVars, loopVars, elapsed_total,
                   stepHist, inputs_seen, lookHist, trail>>

\* The native application, every asset in place, the overlay off; the
\* window system minimises and restores the window.
InitMinimize == InitAppGood("native")

NextMinimize ==
    \/ resumed
    \/ system_minimizes_window
    \/ system_resizes_window
    \/ window_event_Resized
    \/ window_event_RedrawRequested
    \/ run_measure
    \/ run_pump_returns
    \/ run_drain_step
    \/ run_drain_done
    \/ run_request_redraw

SpecMinimize == InitMinimize /\ [][NextMinimize]_vars

\* ------------------------------------------- the vertical-sync checkbox

\* The native application, every asset in place, the overlay on; of its
\* widgets the user touches the vertical-sync checkbox only, and closes the
\* window.
InitVsync ==
    /\ InitApp("native")
    /\ env = GoodEnv
    /\ draw_props = DrawProperties_default(TRUE)
    /\ obj_file = None
    /\ touched_widgets = {"vsync_enabled"}

NextVsync ==
    \/ resumed
    \/ window_event_CloseRequested
    \/ window_event_RedrawRequested
    \/ run_measure
    \/ run_pump_returns
    \/ run_drain_step
    \/ run_drain_done
    \/ run_request_redraw

SpecVsync == InitVsync /\ [][NextVsync]_vars

\* run() measures that time has passed, app.rs:459-466.
run_measure_elapsed == run_measure /\ elapsed_total' > elapsed_total

\* A step of run().
run_steps ==
    \/ run_measure
    \/ run_pump_returns
    \/ run_drain_step
    \/ run_drain_done
    \/ run_request_redraw

\* The loop of run() goes on, and real time keeps elapsing: again and again
\* a measurement finds that time has passed (while the bound of the model on
\* the time leaves room for it).
SpecVsyncLive ==
    /\ SpecVsync
    /\ WF_vars(run_steps)
    /\ SF_vars(run_measure_elapsed)

\* ------------------------------------------------- loading a mesh file

\* Model::create_from_file, model.rs:30-31: the file is loaded and processed
\* before any GL object is made.
Model_load ==
    /\ obj_file # None
    /\ obj_result = None
    /\ obj_result' = Some(load_obj_from_file(unwrap(obj_file)))
    /\ UNCHANGED <<target_arch, borrow_flag, vsyncVars, camera, inputVars,
                   loopVars, elapsed_total, stepHist, inputs_seen, lookHist,
                   trail, env, resVars, glVars, drawVars, sizeVars, frameHist,
                   obj_file, touched_widgets, eventHist>>

InitObj ==
    /\ InitApp("native")
    /\ env = GoodEnv
    /\ draw_props = DrawProperties_default(FALSE)
    /\ obj_file \in {Some(file) : file \in ObjFiles}
    /\ touched_widgets = {}

NextObj == Model_load

\* Every mesh file within the bounds, loaded once.
SpecObj == InitObj /\ [][NextObj]_vars

\* ------------------------------------------- claims on the application

\* The rotation Camera::look leaves when called with (10, 5) on the camera
\* as it was at the last release of the button.
LookFromRelease ==
    [x |-> wrap_yaw(at_release.rotation.x + 10 * LOOK_SENSITIVITY),
     y |-> clamp(at_release.rotation.y + 5 * LOOK_SENSITIVITY,
                 0 - 89 * DegreeScale, 89 * DegreeScale)]

\* The button is down and the one MouseMotion event since it went down was (10, 5).
FirstMotionIs10By5 ==
    /\ right_mouse_pressed
    /\ since_press = <<<<10, 5>>>>

\* While the button is up, rotation and direction are those of the last release.
NoLookWhileReleased ==
    ~right_mouse_pressed =>
        /\ camera.rotation = at_release.rotation
        /\ camera.direction = at_release.direction

\* C6 as stated: a mouse-motion event received while the button is released
\* leaves rotation and direction unchanged, and after re-pressing the button
\* a motion of (10, 5) increases yaw by exactly 10 * sensitivity and pitch by
\* 5 * sensitivity relative to their values at the release, whatever motion
\* events occurred while released.
C6_ExactIncrease ==
    /\ NoLookWhileReleased
    /\ FirstMotionIs10By5 =>
        /\ YawOf(camera) = at_release.rotation.x + 10 * LOOK_SENSITIVITY
        /\ PitchOf(camera) = at_release.rotation.y + 5 * LOOK_SENSITIVITY

\* C6 as amended: a mouse-motion event received while the button is released
\* leaves rotation and direction unchanged, and after re-pressing the button
\* a motion of (10, 5) takes yaw and pitch to what look(10, 5) gives from
\* their values at the release (yaw + 10 * sensitivity passed through
\* wrap_yaw, pitch + 5 * sensitivity clamped to [-89, 89]), whatever motion
\* events occurred while released.
C6_NoJump ==
    /\ NoLookWhileReleased
    /\ FirstMotionIs10By5 =>
        /\ camera.rotation = LookFromRelease
        /\ camera.direction = update_direction(camera).direction

\* C6 witness: the camera was turned, the button released, motion events came
\* with the button up, and the first motion after the re-press was (10, 5).
C6_Witness ==
    /\ FirstMotionIs10By5
    /\ moved_while_released
    /\ at_release.rotation # InitialRotation

\* C7: with the forward key pressed once and held, and no other input, N logic
\* update steps leave position = initialPosition + N * (speed * timestep) *
\* initialDirection.
C7_HeldKeyMovesEveryStep ==
    inputs_seen = "forward_held" =>
        camera.position =
            VAdd(InitialPosition,
                 VScale(Displacement(InitialCamera.direction, FIXED_UPDATE_TIMESTEP),
                        held_updates))

\* C7 witness: two logic update steps made under one key-down event.
C7_Witness ==
    /\ inputs_seen = "forward_held"
    /\ held_updates >= 2

\* lag is the elapsed real time measured so far minus the logic update steps
\* executed so far times the fixed timestep.
LagIsElapsedMinusConsumed ==
    lag = elapsed_total - update_count * FIXED_UPDATE_TIMESTEP

\* C9, safety: after the drain loop of every iteration 0 <= lag <
\* FIXED_UPDATE_TIMESTEP and lag = total elapsed time - steps * timestep.
C9_AfterDrain ==
    pc = "request_redraw" =>
        /\ 0 <= lag
        /\ lag < FIXED_UPDATE_TIMESTEP
        /\ LagIsElapsedMinusConsumed

\* C9: in the native run loop the drain loop terminates, and after it
\* 0 <= lag < FIXED_UPDATE_TIMESTEP and lag = total elapsed real time -
\* (number of logic update steps executed) * FIXED_UPDATE_TIMESTEP.
C9_DrainLoop ==
    /\ []C9_AfterDrain
    /\ (pc = "drain") ~> (pc = "request_redraw")

\* C9 witness: the loop was left after two steps in all, time remaining in lag.
C9_Witness ==
    /\ pc = "request_redraw"
    /\ update_count >= 2
    /\ lag > 0

\* The logic update steps of the current frame have all been made.
StepsOfFrameDone ==
    IF target_arch = "wasm32"
    THEN resumed_done /\ window /\ ~redraw_requested /\ update_count > 0
    ELSE pc = "request_redraw"

\* C10: in both loop variants the number of logic update steps follows the
\* elapsed real time alone: a step runs only when a full fixed timestep of
\* elapsed time is not yet consumed, and once the steps of a frame are done
\* less than one timestep remains unconsumed.
C10_StepsFollowElapsedTime ==
    /\ update_count * FIXED_UPDATE_TIMESTEP <= elapsed_total
    /\ StepsOfFrameDone =>
          elapsed_total - update_count * FIXED_UPDATE_TIMESTEP < FIXED_UPDATE_TIMESTEP

\* ------------------------------------------------ claims on the frame

\* The handler of RedrawRequested runs in this step: it alone takes the
\* redraw request away.
RenderStep == redraw_requested /\ ~redraw_requested'

\* A logic update step runs in this step.
LogicStep == update_count' # update_count

\* run() issues a redraw request in this step.
RedrawRequestStep == redraw_requested' /\ ~redraw_requested

C12_LoopExitsCleanly ==
    /\ exit_requested ~> (pc \in {"exited", "returned"})
    /\ [](exit_requested => pc \in {"pump", "exited", "returned"})
    /\ [][exit_requested => ~LogicStep /\ ~RedrawRequestStep]_vars
    /\ [][(pc \in {"exited", "returned"}) => (pc' \in {"exited", "returned"})]_vars

\* C12 witness: the loop was left with a whole timestep of measured time in
\* lag, after a logic step of an earlier iteration.
C12_Witness ==
    /\ pc = "exited"
    /\ exit_requested
    /\ lag >= FIXED_UPDATE_TIMESTEP
    /\ update_count >= 1

\* ------------------------------------------------ claims on Renderer::draw

\* The passes of Renderer::draw the calls of a frame belong to, in the order
\* of the calls.
PassesOf(calls) == [i \in 1..Len(calls) |-> calls[i].pass]

\* The GL calls of a frame Renderer::draw issued.
IsOfRendererDraw(call) == call.pass # "present" /\ call.call # "return"

\* C13: every Renderer::draw issues its steps in the strict order resize,
\* clear (the clear colour the background colour of the configuration passed,
\* the colour and the depth buffer), model draw call, skybox draw call; the
\* skybox draw call is issued iff skybox_enabled is true in the configuration
\* passed to that draw, and never before the model draw call.
C13_DrawOrder ==
    [][RenderStep =>
        LET calls == SelectSeq(frame', IsOfRendererDraw)
        IN  /\ PassesOf(calls) =
                  IF draw_props'.skybox_enabled
                  THEN <<"resize", "clear", "model", "skybox">>
                  ELSE <<"resize", "clear", "model">>
            /\ calls[1].call = "viewport"
            /\ calls[2].call = "clear"
            /\ calls[2].gl.clear_color = Some(draw_props'.background_color)
            /\ calls[2].mask = {"COLOR_BUFFER_BIT", "DEPTH_BUFFER_BIT"}
            /\ calls[3].call = "draw_elements"]_vars

\* C13 witness: a frame drawn without the skybox, cleared to a background
\* colour the user chose.
C13_Witness ==
    /\ \E i \in 1..Len(frame) : frame[i].pass = "model"
    /\ \A i \in 1..Len(frame) : frame[i].pass # "skybox"
    /\ frame[2].gl.clear_color # Some(DrawProperties_default(TRUE).background_color)

\* The calls of a frame that belong to a pass and are the call named.
CallsOf(calls, pass, call) ==
    {i \in 1..Len(calls) : calls[i].pass = pass /\ calls[i].call = call}

\* C14: the skybox draw call is bracketed: when the draw call of 36 indices
\* is issued face culling is disabled and the depth function is LEQUAL; when
\* draw_skybox returns the depth function is LESS, face culling is enabled
\* and no vertex array is bound.
C14_SkyboxBracketed ==
    [][RenderStep =>
        /\ \A i \in CallsOf(frame', "skybox", "draw_elements") :
              /\ frame'[i].count = 36
              /\ ~frame'[i].gl.CULL_FACE
              /\ frame'[i].gl.depth_func = "LEQUAL"
        /\ \A i \in CallsOf(frame', "skybox", "return") :
              /\ frame'[i].gl.depth_func = "LESS"
              /\ frame'[i].gl.CULL_FACE
              /\ frame'[i].gl.vertex_array = None
        /\ draw_props'.skybox_enabled =>
              /\ CallsOf(frame', "skybox", "draw_elements") # {}
              /\ CallsOf(frame', "skybox", "return") # {}]_vars

\* C14 witness: a frame whose model draw call ran with face culling enabled
\* (as the skybox of the frame before left it) and whose skybox draw call
\* ran with it disabled.
C14_Witness ==
    /\ \E i \in CallsOf(frame, "model", "draw_elements") : frame[i].gl.CULL_FACE
    /\ \E i \in CallsOf(frame, "skybox", "draw_elements") : ~frame[i].gl.CULL_FACE

\* C15: on the desktop the model draw call is issued in polygon mode LINE
\* iff wireframe_mode_enabled is true (FILL otherwise), and before draw_model
\* returns FILL is restored and the vertex array unbound, so that every
\* skybox draw call and every clear, those of the frames after a wireframe
\* frame too, run in polygon mode FILL.
C15_WireframeBracketed ==
    [][(RenderStep /\ target_arch = "native") =>
        /\ CallsOf(frame', "model", "draw_elements") # {}
        /\ \A i \in CallsOf(frame', "model", "draw_elements") :
              frame'[i].gl.polygon_mode =
                  IF draw_props'.wireframe_mode_enabled THEN "LINE" ELSE "FILL"
        /\ CallsOf(frame', "model", "return") # {}
        /\ \A i \in CallsOf(frame', "model", "return") :
              /\ frame'[i].gl.polygon_mode = "FILL"
              /\ frame'[i].gl.vertex_array = None
        /\ \A i \in CallsOf(frame', "skybox", "draw_elements")
                    \cup CallsOf(frame', "clear", "clear") :
              frame'[i].gl.polygon_mode = "FILL"]_vars

\* C15 witness: a frame of the desktop whose model draw call ran in polygon
\* mode LINE and whose skybox draw call ran in polygon mode FILL.
C15_Witness ==
    /\ target_arch = "native"
    /\ \E i \in CallsOf(frame, "model", "draw_elements") :
          frame[i].gl.polygon_mode = "LINE"
    /\ \E i \in CallsOf(frame, "skybox", "draw_elements") :
          frame[i].gl.polygon_mode = "FILL"

\* The draw calls of a frame.
DrawCallsOf(calls) ==
    CallsOf(calls, "model", "draw_elements") \cup CallsOf(calls, "skybox", "draw_elements")

\* The fields of view and framebuffer sizes two by two.
ProjectionInputs == FieldsOfView \X FramebufferSizes

\* C16: at every model and skybox draw call the projection of the renderer
\* is the one computed from the field of view of the configuration passed to
\* that draw and the current framebuffer size of the window (near 0.1, far
\* 100), so that a change of either takes effect in the very next frame; the
\* projection is a function of the two, and another field of view or aspect
\* ratio gives another projection.
C16_ProjectionFollowsConfig ==
    [][RenderStep =>
        /\ DrawCallsOf(frame') # {}
        /\ \A i \in DrawCallsOf(frame') :
              /\ frame'[i].projection =
                    perspective(draw_props'.field_of_view,
                                framebuffer_size[1], framebuffer_size[2])
              /\ \A other \in ProjectionInputs :
                    (perspective(other[1], other[2][1], other[2][2]) = frame'[i].projection)
                        <=> (other = <<draw_props'.field_of_view, framebuffer_size>>)]_vars

\* C16 witness: a frame drawn with the widest field of view on a square
\* framebuffer, the Resized event of the window not delivered yet.
C16_Witness ==
    /\ resize_pending
    /\ framebuffer_size = <<WINDOW_HEIGHT, WINDOW_HEIGHT>>
    /\ \E i \in DrawCallsOf(frame) :
          frame[i].projection = perspective(120 * DegreeScale, WINDOW_HEIGHT, WINDOW_HEIGHT)

\* C17: after any sequence of edits at the control panel (the combo box of
\* the overlay, the select element of the page) selected_model_index is in
\* [0, number of loaded meshes) whenever draw_model reads it, so that the
\* lookup of the mesh does not panic, and the vertex array bound and the
\* count of indices of the draw call are those of the mesh selected.
C17_SelectedModelInBounds ==
    [][RenderStep =>
        /\ pc' # "panicked"
        /\ draw_props'.selected_model_index \in 0..(Len(models) - 1)
        /\ CallsOf(frame', "model", "draw_elements") # {}
        /\ \A i \in CallsOf(frame', "model", "draw_elements") :
              LET model == models[draw_props'.selected_model_index + 1]
              IN  /\ frame'[i].gl.vertex_array = Some(model.vertex_array)
                  /\ frame'[i].count = model.indices]_vars

\* C17 witness: in the browser a frame drew the first mesh, which the user
\* selected on the page.
C17_Witness ==
    /\ target_arch = "wasm32"
    /\ draw_props.selected_model_index = 0
    /\ \E i \in CallsOf(frame, "model", "draw_elements") :
          /\ frame[i].gl.vertex_array = Some(models[1].vertex_array)
          /\ frame[i].count = models[1].indices

\* --------------------------------------- claims on startup and resources

\* The GPU handles a Skybox, a Model, a Shader own: those its Drop deletes.
HandlesOfSkybox(s) == {s.index_buffer, s.vertex_buffer, s.vertex_array, s.texture}
HandlesOfModel(m) == {m.index_buffer, m.vertex_buffer, m.vertex_array}
HandlesOfShader(s) == {s.shader_program}

\* The GPU handles the resource wrappers held by App own.
OwnedHandles ==
    (IF skybox = None THEN {} ELSE HandlesOfSkybox(unwrap(skybox)))
    \cup UNION {HandlesOfModel(models[i]) : i \in 1..Len(models)}
    \cup (IF renderer = None THEN {}
          ELSE HandlesOfShader(unwrap(renderer).model_shader)
               \cup HandlesOfShader(unwrap(renderer).skybox_shader))

\* C18 as stated: every GPU handle has an owner that releases it exactly
\* once on every exit path, the early error returns of startup among them:
\* no handle is deleted twice, once App::resumed has returned every handle
\* that exists is owned by a resource wrapper of App, and none exists when
\* main has returned.
C18_HandlesOwnedAndReleasedOnce ==
    /\ gl.deleted_twice = {}
    /\ resumed_done => gl.objects = OwnedHandles
    /\ pc = "returned" => gl.objects = {}

\* App::resumed has run in an environment where a step of startup fails.
StartupHasFailed == resumed_done /\ env \in FailingEnvs

\* C19 as stated: a fatal startup error aborts the run with a message, and
\* after it no logic update step runs, no draw call is issued and the run
\* ends by the error path, never by the panic of an unwrap on a field that
\* was not set.
C19_StartupErrorAborts ==
    StartupHasFailed =>
        /\ stderr # <<>>
        /\ update_count = 0
        /\ frame = <<>>
        /\ pc # "panicked"

\* The six faces of the skybox in the environment.
Faces == {texture_face_paths[i] : i \in 1..Len(texture_face_paths)}

\* C20 as stated: the construction of the skybox is all or nothing over its
\* six faces: if a face fails to decode, or the six faces do not all have
\* the same dimensions, no Skybox exists; a Skybox exists only when all six
\* faces were uploaded, face i of the order right, left, top, bottom, front,
\* back to the cube-map target POSITIVE_X + i.
C20_SkyboxAllOrNothing ==
    resumed_done =>
        /\ (\E p \in Faces : ~env.files[p].decodes) => skybox = None
        /\ (\E p, q \in Faces :
                <<env.files[p].width, env.files[p].height>>
                    # <<env.files[q].width, env.files[q].height>>) => skybox = None
        /\ skybox # None =>
              /\ Len(gl.tex_images) = Len(texture_face_paths)
              /\ \A i \in 1..Len(gl.tex_images) :
                    /\ gl.tex_images[i].target = TEXTURE_CUBE_MAP_POSITIVE_X + (i - 1)
                    /\ gl.tex_images[i].face = texture_face_paths[i]

\* ------------------------------------------- claims on the mesh files

\* The mesh file loaded and what came of it.
ObjLoaded == obj_result # None
TheObjFile == unwrap(obj_file)
TheObjResult == unwrap(obj_result)

\* C21: Loading a mesh file gives an error value that carries the path of the
\* file whenever the file cannot be made into a mesh: when it does not parse,
\* and when a mesh of it has positions but fewer normals than vertices.  No
\* such load panics and none returns a model.
C21_DecodeFailureIsError ==
    ObjLoaded =>
        LET file == TheObjFile
            undecodable ==
                \/ ~file.parses
                \/ \E k \in 1..Len(file.meshes) :
                       Len(file.meshes[k].normals) < Len(file.meshes[k].positions)
        IN  /\ TheObjResult.outcome # "panic"
            /\ undecodable =>
                   /\ TheObjResult.outcome = "Err"
                   /\ \E i \in 1..Len(TheObjResult.err) : TheObjResult.err[i] = file.path

\* The part of C21 that holds: a file that does not parse gives an error
\* value with the path of the file, and a file whose meshes all have their
\* normals gives a model.
C21_ParseFailureIsError ==
    ObjLoaded =>
        /\ ~TheObjFile.parses =>
               /\ TheObjResult.outcome = "Err"
               /\ \E i \in 1..Len(TheObjResult.err) :
                      TheObjResult.err[i] = TheObjFile.path
        /\ TheObjResult.outcome = "panic" =>
               \E k \in 1..Len(TheObjFile.meshes) :
                   Len(TheObjFile.meshes[k].normals)
                       < Len(TheObjFile.meshes[k].positions)

\* The number of indices and of vertices of the meshes before the k-th.
RECURSIVE IndicesBefore(_, _)
IndicesBefore(meshes, k) ==
    IF k <= 1 THEN 0
    ELSE IndicesBefore(meshes, k - 1) + Len(meshes[k - 1].indices)

\* C30: In the vertices and indices made of a mesh file, every index is below
\* the number of vertices and refers to the vertex it referred to within its
\* own mesh, for a file of one mesh and for a file of two or more.
C30_IndicesKeepTheirVertex ==
    (ObjLoaded /\ TheObjResult.outcome = "Ok") =>
        LET meshes == TheObjFile.meshes
            obj == TheObjResult
        IN  \A k \in 1..Len(meshes) :
                \A j \in 1..Len(meshes[k].indices) :
                    LET index == obj.indices[IndicesBefore(meshes, k) + j]
                    IN  /\ index < Len(obj.vertices)
                        /\ obj.vertices[index + 1]
                               = Vertex_of(meshes[k], meshes[k].indices[j])

\* The part of C30 that holds: a file of one mesh keeps its geometry, and
\* every index is below the number of vertices.
C30_SingleMeshKeepsGeometry ==
    (ObjLoaded /\ TheObjResult.outcome = "Ok") =>
        LET meshes == TheObjFile.meshes
            obj == TheObjResult
        IN  /\ \A i \in 1..Len(obj.indices) : obj.indices[i] < Len(obj.vertices)
            /\ Len(meshes) = 1 =>
                   \A j \in 1..Len(meshes[1].indices) :
                       obj.vertices[obj.indices[j] + 1]
                           = Vertex_of(meshes[1], meshes[1].indices[j])

\* ------------------------------------------- claims on the shaders

\* The GLSL files of the two programs and the kind of shader each holds.
ShaderFiles == {"model.vert", "model.frag", "skybox.vert", "skybox.frag"}
ShaderTypeOf(shader_path) ==
    IF shader_path \in {"model.vert", "skybox.vert"} THEN "vertex" ELSE "fragment"

\* C22: When a shader does not compile or a program does not link, startup
\* ends without a renderer (no usable Shader is returned) and the message
\* reported on stderr is the info log of the driver, whole.
C22_ShaderFailureReportsLog ==
    resumed_done =>
        /\ \A p \in ShaderFiles :
               ~env.files[p].compiles =>
                   /\ renderer = None
                   /\ \E i \in 1..Len(stderr) :
                          stderr[i] = <<ShaderTypeOf(p), " shader compile error: ">>
                                          \o InfoLogOf(p \o ".shader")
        /\ \A n \in {"model", "skybox"} :
               ~env.programs[n] =>
                   /\ renderer = None
                   /\ \E i \in 1..Len(stderr) :
                          stderr[i] = <<"shader link error: ">>
                                          \o InfoLogOf(n \o ".program")

\* The part of C22 that holds: startup ends without a renderer and with the
\* error of Shader::new on stderr; the line printed for the info log ends
\* where the log should begin.
C22_ShaderFailureIsError ==
    resumed_done =>
        /\ \A p \in ShaderFiles :
               ~env.files[p].compiles =>
                   /\ renderer = None
                   /\ \E i \in 1..Len(stderr) :
                          stderr[i] = <<ShaderTypeOf(p), " shader compile error: ">>
                   /\ \E i \in 1..Len(stderr) : \E j \in 1..Len(stderr[i]) :
                          stderr[i][j] = "failed to compile GLSL code"
        /\ \A n \in {"model", "skybox"} :
               ~env.programs[n] =>
                   /\ renderer = None
                   /\ \E i \in 1..Len(stderr) : stderr[i] = <<"shader link error: ">>
                   /\ \E i \in 1..Len(stderr) : \E j \in 1..Len(stderr[i]) :
                          stderr[i][j] = "failed to link shader program"

\* ------------------------------------- claims on the draw properties cell

\* C23: The RefCell of the draw properties is never borrowed mutably while
\* another borrow of it is alive, and never borrowed while a mutable borrow
\* is alive: across startup, window events, redraws, logic update steps and
\* the callbacks of the page no borrow is refused (no handler panics on it),
\* and every handler has dropped its borrows when it returns.
C23_NoBorrowConflict == borrow_flag = 0

\* In the browser the user changed a widget of the page, a logic update step
\* ran and a frame was drawn after it.
C23_Witness ==
    /\ target_arch = "wasm32"
    /\ edit_count > 0
    /\ update_count > 0
    /\ frame # <<>>
    /\ draw_props # DrawProperties_default(FALSE)
    /\ borrow_flag = 0

\* ------------------------------------------- claims on vertical sync

\* The swap interval the surface has when vertical sync is as in the draw
\* properties.
VsyncInEffect ==
    /\ vsync_enabled = draw_props.vsync_enabled
    /\ swap_interval = Some(set_vsync_enabled(draw_props.vsync_enabled))

C25_ModelDrawnWithoutCulling ==
    [][RenderStep =>
        \A i \in CallsOf(frame', "model", "draw_elements") :
            ~frame'[i].gl.CULL_FACE]_vars

\* The part of C25 that holds: the model draw call of the first frame runs
\* with face culling disabled, and a model draw call runs with it enabled
\* only after a frame that drew the skybox.
C25_CullingOffUntilSkyboxDrawn ==
    [][RenderStep =>
        \A i \in CallsOf(frame', "model", "draw_elements") :
            frame'[i].gl.CULL_FACE =>
                CallsOf(frame, "skybox", "draw_elements") # {}
                    \/ (\E j \in CallsOf(frame, "model", "draw_elements") :
                            frame[j].gl.CULL_FACE)]_vars

\* ------------------------------------------- claims on shutdown

\* C26: No delete call for a GPU resource (shader program, mesh buffer or
\* vertex array, skybox texture or buffer) is issued after the window and the
\* context with its surface have been destroyed.
C26_ReleasesBeforeContextGone == gl.released_late = {}

\* The part of C26 that holds: while the application has not returned from
\* main, startup failures included, no delete call is late.
C26_NoLateReleaseBeforeReturn == pc # "returned" => gl.released_late = {}

\* ------------------------------------------- claims on the window size

\* C27: Renderer::resize is never called with a width or a height of zero,
\* from the Resized event or from Renderer::draw: the viewport it sets, and
\* the aspect of the projection with it, always has two dimensions that are
\* not zero.
C27_ResizeNeverZero ==
    gl.viewport # None =>
        /\ unwrap(gl.viewport)[1] # 0
        /\ unwrap(gl.viewport)[2] # 0

\* The part of C27 that holds: the handler of Resized calls resize with no
\* size that has a zero.
C27_ResizedIsGuarded ==
    [][(resize_pending /\ ~resize_pending' /\ gl' # gl) =>
          /\ unwrap(gl'.viewport) = framebuffer_size
          /\ framebuffer_size[1] # 0
          /\ framebuffer_size[2] # 0]_vars

\* ------------------------------------------- claims on initialisation

\* The fields App::resumed sets are all set, with three meshes, or all
\* unset, with none.
AllSet ==
    /\ window
    /\ renderer # None
    /\ skybox # None
    /\ gui # None
    /\ Len(models) = 3
AllUnset ==
    /\ ~window
    /\ renderer = None
    /\ skybox = None
    /\ gui = None
    /\ models = <<>>

\* C28: In every state the window, the renderer, the skybox, the overlay GUI
\* and the meshes are all set (three meshes) or all unset (no mesh); every
\* frame is drawn with all of them set, its model draw call is issued (the
\* assertion on the number of meshes held), and no handler of a window event
\* or of a redraw panics: the program panics in run() only.
C28_AllOrNothing ==
    /\ [](AllSet \/ AllUnset)
    /\ [][RenderStep => (AllSet /\ AllSet'
                         /\ CallsOf(frame', "model", "draw_elements") # {})]_vars
    /\ [][(pc # "panicked" /\ pc' = "panicked") => pc = "request_redraw"]_vars

\* Startup succeeded, a frame was drawn with the three meshes and every field
\* set.
C28_Witness ==
    /\ AllSet
    /\ resumed_done
    /\ CallsOf(frame, "model", "draw_elements") # {}

\* ------------------------------------------- claims on the overlay's events

\* C29: Every window event given to App::window_event is handed to
\* Gui::handle_events as well, a KeyboardInput of a key that moves nothing
\* included: the overlay has seen the events delivered, in their order.
C29_EveryEventForwarded == gui_events = delivered

\* The key events the overlay does not see: the first press or release (no
\* repeat, not synthetic) of a physical key that is no movement key.
IsUnmappedKey(event) ==
    /\ event.type = "KeyboardInput"
    /\ event.key # "Escape"
    /\ ~event.repeat
    /\ ~event.is_synthetic
    /\ key_to_input_event(event.key) = "None"

\* The part of C29 that holds: every other window event is forwarded, in the
\* order of delivery.
C29_AllButUnmappedKeysForwarded ==
    gui_events = SelectSeq(delivered, LAMBDA event : ~IsUnmappedKey(event))

====
